---- MODULE Spec2Model ----
(***************************************************************************)
(* A model of R2M2: the ordered container OrderedVec<T> (src/src/mods.rs), *)
(* the tag form FormState<TagForm> (src/src/app/widgets/form.rs) and the   *)
(* modal controller Model with its host loop (src/src/app.rs,              *)
(* src/src/main.rs).                                                       *)
(*                                                                         *)
(* Strings are sequences of one-character strings.  A Tag is a record      *)
(* [name, score, color], a Mod a record [id, name, tags].                  *)
(***************************************************************************)
EXTENDS Integers, Sequences, FiniteSets, TLC

VARIABLES
    vec,        \* SpecVec: the data of one OrderedVec<Tag>
    vlast,      \* SpecVec: the last upsert, [before, arg] (history)
    ms,         \* SpecMods: the data of one OrderedVec<Mod>
    mlast,      \* SpecMods: how ms was produced (history)
    form,       \* SpecForm: one FormState<TagForm>
    fpanic,     \* SpecForm: a call on the form has panicked
    fhist,      \* SpecForm: what the advances of this session accepted (history)
    model,      \* Spec, SpecMove: the controller, a Model of src/src/app.rs
    msg,        \* Spec, SpecMove: the host loop's `msg`, an Option<Message>
    panicked,   \* Spec, SpecMove: the program has panicked
    hist        \* Spec, SpecMove: what the user typed and the last movement (history)

vecVars == <<vec, vlast>>
modVars == <<ms, mlast>>
formVars == <<form, fpanic, fhist>>
ctlVars == <<model, msg, panicked, hist>>
vars == <<vec, vlast, ms, mlast, form, fpanic, fhist, model, msg, panicked, hist>>

(***************************************************************************)
(* Bounds of the model.                                                    *)
(***************************************************************************)
MaxScore == 0
MaxBuf == 2

None == [some |-> FALSE]
Some(v) == [some |-> TRUE, v |-> v]

(***************************************************************************)
(* Strings and their order (str::cmp is bytewise lexicographic).           *)
(***************************************************************************)
\* The characters the model uses, in increasing byte order, with their bytes.
Ascii ==
    <<" ", "#", "0", "1", "2", "3", "4", "5", "6", "7", "8", "9", "?",
      "A", "B", "C", "D", "E", "F", "G", "H", "I", "J", "K", "L", "M",
      "N", "O", "P", "Q", "R", "S", "T", "U", "V", "W", "X", "Y", "Z",
      "a", "b", "c", "d", "e", "f", "g", "h", "i", "j", "k", "l", "m",
      "n", "o", "p", "q", "r", "s", "t", "u", "v", "w", "x", "y", "z">>

Byte(c) ==
    LET i == CHOOSE k \in 1 .. Len(Ascii) : Ascii[k] = c
    IN  IF i = 1 THEN 32
        ELSE IF i = 2 THEN 35
        ELSE IF i <= 12 THEN 45 + i
        ELSE IF i = 13 THEN 63
        ELSE IF i <= 39 THEN 51 + i
        ELSE 57 + i

Min(a, b) == IF a < b THEN a ELSE b

IntCmp(a, b) == IF a < b THEN "Less" ELSE IF a > b THEN "Greater" ELSE "Equal"

RECURSIVE StrCmp(_, _)
StrCmp(s, t) ==
    IF s = <<>> /\ t = <<>> THEN "Equal"
    ELSE IF s = <<>> THEN "Less"
    ELSE IF t = <<>> THEN "Greater"
    ELSE IF Head(s) # Head(t) THEN IntCmp(Byte(Head(s)), Byte(Head(t)))
    ELSE StrCmp(Tail(s), Tail(t))

\* Ordering::then
Then(first, second) == IF first = "Equal" THEN second ELSE first

\* Iterator::cmp over two sequences of scores
RECURSIVE ScoresCmp(_, _)
ScoresCmp(s, t) ==
    IF s = <<>> /\ t = <<>> THEN "Equal"
    ELSE IF s = <<>> THEN "Less"
    ELSE IF t = <<>> THEN "Greater"
    ELSE IF Head(s) # Head(t) THEN IntCmp(Head(s), Head(t))
    ELSE ScoresCmp(Tail(s), Tail(t))

(***************************************************************************)
(* Text: str::trim, u64/usize/u8 FromStr, Display of integers.             *)
(***************************************************************************)
Digits == {"0", "1", "2", "3", "4", "5", "6", "7", "8", "9"}

RECURSIVE TrimStart(_)
TrimStart(s) == IF s # <<>> /\ Head(s) = " " THEN TrimStart(Tail(s)) ELSE s

RECURSIVE TrimEnd(_)
TrimEnd(s) ==
    IF s # <<>> /\ s[Len(s)] = " " THEN TrimEnd(SubSeq(s, 1, Len(s) - 1)) ELSE s

Trim(s) == TrimEnd(TrimStart(s))

RECURSIVE StripZeros(_)
StripZeros(s) == IF s # <<>> /\ Head(s) = "0" THEN StripZeros(Tail(s)) ELSE s

\* u64::MAX and usize::MAX (64-bit target) in decimal
U64MaxText ==
    <<"1", "8", "4", "4", "6", "7", "4", "4", "0", "7",
      "3", "7", "0", "9", "5", "5", "1", "6", "1", "5">>

FitsU64(s) ==
    LET z == StripZeros(s)
    IN  \/ Len(z) < Len(U64MaxText)
        \/ Len(z) = Len(U64MaxText) /\ StrCmp(z, U64MaxText) # "Greater"

\* The value of a digit string.  Values from 10^8 on are all represented by
\* 10^8: the model only compares them with collection lengths and u8::MAX.
Saturation == 10 ^ 8

RECURSIVE DigitsValue(_, _)
DigitsValue(s, acc) ==
    IF s = <<>> THEN acc
    ELSE IF acc >= Saturation THEN Saturation
    ELSE DigitsValue(Tail(s), Min(acc * 10 + (Byte(Head(s)) - 48), Saturation))

\* str::parse::<u64>() and str::parse::<usize>() on texts without a sign
ParseU64(s) ==
    IF s # <<>> /\ (\A i \in 1 .. Len(s) : s[i] \in Digits) /\ FitsU64(s)
    THEN Some(DigitsValue(s, 0))
    ELSE None

\* str::parse::<u8>()
ParseU8(s) ==
    IF s # <<>> /\ (\A i \in 1 .. Len(s) : s[i] \in Digits) /\ DigitsValue(s, 0) <= 255
    THEN Some(DigitsValue(s, 0))
    ELSE None

\* u64::to_string, u8::to_string
RECURSIVE DecimalText(_)
DecimalText(n) ==
    IF n < 10 THEN <<Ascii[3 + n]>>
    ELSE Append(DecimalText(n \div 10), Ascii[3 + (n % 10)])

(***************************************************************************)
(* ratatui's Color: FromStr and Display, as called by the form and the     *)
(* controller.  A color is Rgb(r, g, b), Indexed(i) or a named color.      *)
(***************************************************************************)
Rgb(r, g, b) == [kind |-> "Rgb", r |-> r, g |-> g, b |-> b]
Indexed(i) == [kind |-> "Indexed", i |-> i]
Named(n) == [kind |-> "Named", name |-> n]

HexUpper ==
    <<"0", "1", "2", "3", "4", "5", "6", "7", "8", "9", "A", "B", "C", "D", "E", "F">>
HexLower ==
    <<"0", "1", "2", "3", "4", "5", "6", "7", "8", "9", "a", "b", "c", "d", "e", "f">>

HexPair(n, table) == <<table[(n \div 16) + 1], table[(n % 16) + 1]>>

\* u8::from_str_radix(_, 16) of one character: its value, -1 if it is no hex digit
HexVal(c) ==
    IF \E i \in 1 .. 16 : HexUpper[i] = c \/ HexLower[i] = c
    THEN (CHOOSE i \in 1 .. 16 : HexUpper[i] = c \/ HexLower[i] = c) - 1
    ELSE -1

\* parse_hex_color: "#rrggbb"
ParseHexColor(s) ==
    IF Len(s) = 7 /\ s[1] = "#" /\ (\A i \in 2 .. 7 : HexVal(s[i]) >= 0)
    THEN Some(Rgb(HexVal(s[2]) * 16 + HexVal(s[3]),
                  HexVal(s[4]) * 16 + HexVal(s[5]),
                  HexVal(s[6]) * 16 + HexVal(s[7])))
    ELSE None

\* to_lowercase().replace([' ', '-', '_'], "")
LowerChar(c) ==
    LET i == CHOOSE k \in 1 .. Len(Ascii) : Ascii[k] = c
    IN  IF i >= 14 /\ i <= 39 THEN Ascii[i + 26] ELSE c

RECURSIVE NormalizeName(_)
NormalizeName(s) ==
    IF s = <<>> THEN <<>>
    ELSE IF Head(s) = " " THEN NormalizeName(Tail(s))
    ELSE <<LowerChar(Head(s))>> \o NormalizeName(Tail(s))

\* The color names FromStr knows (its aliases bright*, grey, silver cannot be
\* spelled with the characters the model types and are left out).
ColorNames ==
    {<<"r", "e", "s", "e", "t">>, <<"b", "l", "a", "c", "k">>, <<"r", "e", "d">>,
     <<"g", "r", "e", "e", "n">>, <<"y", "e", "l", "l", "o", "w">>,
     <<"b", "l", "u", "e">>, <<"m", "a", "g", "e", "n", "t", "a">>,
     <<"c", "y", "a", "n">>, <<"g", "r", "a", "y">>,
     <<"d", "a", "r", "k", "g", "r", "a", "y">>,
     <<"l", "i", "g", "h", "t", "r", "e", "d">>,
     <<"l", "i", "g", "h", "t", "g", "r", "e", "e", "n">>,
     <<"l", "i", "g", "h", "t", "y", "e", "l", "l", "o", "w">>,
     <<"l", "i", "g", "h", "t", "b", "l", "u", "e">>,
     <<"l", "i", "g", "h", "t", "m", "a", "g", "e", "n", "t", "a">>,
     <<"l", "i", "g", "h", "t", "c", "y", "a", "n">>, <<"w", "h", "i", "t", "e">>}

\* Color::from_str: a name, else a u8 index, else "#rrggbb"
ColorFromStr(s) ==
    IF NormalizeName(s) \in ColorNames THEN Some(Named(NormalizeName(s)))
    ELSE IF ParseU8(s).some THEN Some(Indexed(ParseU8(s).v))
    ELSE ParseHexColor(s)

\* Color's Display: "#RRGGBB", the index, or the name
ColorToString(c) ==
    IF c.kind = "Rgb"
    THEN <<"#">> \o HexPair(c.r, HexUpper) \o HexPair(c.g, HexUpper) \o HexPair(c.b, HexUpper)
    ELSE IF c.kind = "Indexed" THEN DecimalText(c.i)
    ELSE c.name

\* random_color(): the triples the HSV conversion can return, two of them here
\* (hue 0 and hue 120 at saturation 0.85, value 0.9)
RandomColors == {<<229, 34, 34>>, <<34, 229, 34>>}

(***************************************************************************)
(* impl Item for Tag                                                       *)
(***************************************************************************)
TagPatchKeepsScore(self, other) == [self EXCEPT !.color = other.color]

TagPatch(self, other) ==
    [self EXCEPT !.score = other.score, !.color = other.color]

TagVecOrder(self, other) ==
    Then(IntCmp(self.score, other.score), StrCmp(self.name, other.name))

(***************************************************************************)
(* impl Item for Mod                                                       *)
(***************************************************************************)
ScoresOf(tags) == [i \in 1 .. Len(tags) |-> tags[i].score]

ModVecOrderScoresOnly(self, other) ==
    IF self.tags = <<>> /\ other.tags = <<>> THEN StrCmp(self.name, other.name)
    ELSE IF self.tags = <<>> THEN "Greater"
    ELSE IF other.tags = <<>> THEN "Less"
    ELSE ScoresCmp(ScoresOf(self.tags), ScoresOf(other.tags))

\* Mod::vec_order answering Greater whenever exactly one of the two items is
\* untagged
ModVecOrderOneUntagged(self, other) ==
    IF self.tags = <<>> /\ other.tags = <<>> THEN StrCmp(self.name, other.name)
    ELSE IF self.tags = <<>> THEN "Greater"
    ELSE IF other.tags = <<>> THEN "Greater"
    ELSE Then(ScoresCmp(ScoresOf(self.tags), ScoresOf(other.tags)),
              StrCmp(self.name, other.name))

ModVecOrder(self, other) ==
    IF self.tags = <<>> /\ other.tags = <<>> THEN StrCmp(self.name, other.name)
    ELSE IF self.tags = <<>> THEN "Greater"
    ELSE IF other.tags = <<>> THEN "Less"
    ELSE Then(ScoresCmp(ScoresOf(self.tags), ScoresOf(other.tags)),
              StrCmp(self.name, other.name))

(***************************************************************************)
(* OrderedVec<T>.  Cmp(a, b) is T::vec_order, Patch(a, b) is T::patch; the *)
(* identifier of a Tag is its name, of a Mod its id.                       *)
(***************************************************************************)
\* get_mut_by_name: the index of the first element with that identifier, 0 if none
IndexOfName(data, name) ==
    IF \E i \in 1 .. Len(data) : data[i].name = name
    THEN CHOOSE i \in 1 .. Len(data) :
            /\ data[i].name = name
            /\ \A j \in 1 .. i - 1 : data[j].name # name
    ELSE 0

\* Vec::insert writing over the element at idx instead of shifting the tail
InsertAtOverwrites(data, idx, x) ==
    IF idx <= Len(data) THEN [data EXCEPT ![idx] = x] ELSE Append(data, x)

InsertAt(data, idx, x) ==
    [i \in 1 .. Len(data) + 1 |->
        IF i < idx THEN data[i] ELSE IF i = idx THEN x ELSE data[i - 1]]

\* slice::binary_search_by(..).unwrap_or_else(|i| i), as a 0-based position.
\* The standard library leaves the result on an unsorted slice unspecified;
\* these are its two implementations (the halving-size loop of current
\* releases and the left/right loop of earlier ones).
RECURSIVE BSearchBase(_, _, _, _)
BSearchBase(data, other, base, size) ==
    IF size > 1
    THEN LET half == size \div 2
             mid == base + half
         IN  BSearchBase(data, other,
                 IF TagVecOrder(data[mid + 1], other) = "Greater" THEN base ELSE mid,
                 size - half)
    ELSE base

BinarySearchHalving(data, other) ==
    IF Len(data) = 0 THEN 0
    ELSE LET base == BSearchBase(data, other, 0, Len(data))
             cmp == TagVecOrder(data[base + 1], other)
         IN  IF cmp = "Less" THEN base + 1 ELSE base

RECURSIVE BSearchLeftRight(_, _, _, _)
BSearchLeftRight(data, other, left, right) ==
    IF left < right
    THEN LET mid == left + (right - left) \div 2
             cmp == TagVecOrder(data[mid + 1], other)
         IN  IF cmp = "Equal" THEN mid
             ELSE BSearchLeftRight(data, other,
                     IF cmp = "Less" THEN mid + 1 ELSE left,
                     IF cmp = "Greater" THEN mid ELSE right)
    ELSE left

InsertionPoints(data, other) ==
    {BinarySearchHalving(data, other), BSearchLeftRight(data, other, 0, Len(data))}

\* OrderedVec<Tag>::upsert: the possible results
Upsert(data, other) ==
    IF IndexOfName(data, other.name) # 0
    THEN {[data EXCEPT ![IndexOfName(data, other.name)] = TagPatch(@, other)]}
    ELSE {InsertAt(data, idx + 1, other) : idx \in InsertionPoints(data, other)}

\* slice::sort_by with Mod::vec_order: a stable sort
RECURSIVE StableInsert(_, _)
StableInsert(sorted, x) ==
    IF sorted = <<>> THEN <<x>>
    ELSE IF ModVecOrder(sorted[Len(sorted)], x) = "Greater"
         THEN Append(StableInsert(SubSeq(sorted, 1, Len(sorted) - 1), x),
                     sorted[Len(sorted)])
         ELSE Append(sorted, x)

RECURSIVE SortMods(_)
SortMods(data) ==
    IF data = <<>> THEN <<>>
    ELSE StableInsert(SortMods(SubSeq(data, 1, Len(data) - 1)), data[Len(data)])

\* impl From<Vec<Mod>> for OrderedVec<Mod>
FromVecUnsorted(value) == value

\* the same conversion keeping one element per identifier
KeepNew(kept, x) ==
    IF \E i \in 1 .. Len(kept) : kept[i].id = x.id THEN kept ELSE Append(kept, x)

RECURSIVE Distinct(_)
Distinct(value) ==
    IF value = <<>> THEN <<>>
    ELSE KeepNew(Distinct(SubSeq(value, 1, Len(value) - 1)), value[Len(value)])

FromVecDistinct(value) == SortMods(Distinct(value))

FromVec(value) == SortMods(value)

\* OrderedVec<Mod>::upsert_tag_to with mod_idx in range: the possible results
UpsertTagToNoSort(data, mod_idx, tag) ==
    {[data EXCEPT ![mod_idx + 1].tags = t] : t \in Upsert(data[mod_idx + 1].tags, tag)}

UpsertTagTo(data, mod_idx, tag) ==
    {SortMods([data EXCEPT ![mod_idx + 1].tags = t]) :
        t \in Upsert(data[mod_idx + 1].tags, tag)}

(***************************************************************************)
(* Order predicates used by the properties.                                *)
(***************************************************************************)
TagsSorted(data) ==
    \A i \in 1 .. Len(data) - 1 : TagVecOrder(data[i], data[i + 1]) # "Greater"

NoDupNames(data) ==
    \A i, j \in 1 .. Len(data) : data[i].name = data[j].name => i = j

ModsSorted(data) ==
    \A i \in 1 .. Len(data) - 1 : ModVecOrder(data[i], data[i + 1]) # "Greater"

(***************************************************************************)
(* SpecVec: upserts into one OrderedVec<Tag>, starting empty.              *)
(***************************************************************************)
VecNames == {<<"a">>, <<"b">>, <<"a", "b">>}
Scores == (0 .. MaxScore) \cup {5}
VecColors == {"Red", "Blue"}
VecTags == [name : VecNames, score : Scores, color : VecColors]

VecIdle == vec = <<>> /\ vlast = None
ModsIdle == ms = <<>> /\ mlast = None
FormIdle == form = None /\ fpanic = FALSE /\ fhist = None
CtlIdle == model = None /\ msg = None /\ panicked = FALSE /\ hist = None

InitVec ==
    /\ vec = <<>>
    /\ vlast = None
    /\ ModsIdle
    /\ FormIdle
    /\ CtlIdle

VecUpsert ==
    \E t \in VecTags :
        /\ vec' \in Upsert(vec, t)
        /\ vlast' = Some([before |-> vec, arg |-> t])
        /\ UNCHANGED <<modVars, formVars, ctlVars>>

NextVec == VecUpsert

SpecVec == InitVec /\ [][NextVec]_vars

\* C1: after each upsert into an OrderedVec<Tag> that started empty, the
\* sequence is sorted by (score ascending, name ascending) and no two
\* elements have the same name.
C1_SortedNoDupAfterUpsert == TagsSorted(vec) /\ NoDupNames(vec)

\* C2: upsert(tag) with a name already present leaves the length and that
\* element's index unchanged, keeps its name and sets its score and color to
\* the new values; with a name not present it inserts the element exactly
\* once and the length grows by exactly 1.
C2_UpsertPatchesOrInserts ==
    vlast.some =>
        LET before == vlast.v.before
            t == vlast.v.arg
            held == {i \in 1 .. Len(before) : before[i].name = t.name}
            holds == {i \in 1 .. Len(vec) : vec[i].name = t.name}
        IN  IF held # {}
            THEN /\ Len(vec) = Len(before)
                 /\ holds = held
                 /\ \A i \in holds : vec[i].score = t.score /\ vec[i].color = t.color
            ELSE /\ Len(vec) = Len(before) + 1
                 /\ Cardinality(holds) = 1
                 /\ \A i \in holds : vec[i] = t

\* C2's case: an upsert has patched an element whose score and color differed.
C2_Witness ==
    /\ vlast.some
    /\ \E i \in 1 .. Len(vlast.v.before) :
          /\ vlast.v.before[i].name = vlast.v.arg.name
          /\ vlast.v.before[i].score # vlast.v.arg.score
          /\ vlast.v.before[i].color # vlast.v.arg.color
    /\ Len(vec) = 3

\* C31: upsert of an element whose identifier is absent succeeds on any
\* collection state, also one that an earlier in-place patch left unsorted:
\* the new element is in the result exactly once, the length grows by one,
\* and the elements held before are all there, unmodified and in the same
\* relative order.
C31_AbsentUpsertInserts ==
    (vlast.some /\ IndexOfName(vlast.v.before, vlast.v.arg.name) = 0) =>
        LET before == vlast.v.before
            t == vlast.v.arg
        IN  /\ Len(vec) = Len(before) + 1
            /\ \E k \in 1 .. Len(vec) :
                  /\ vec[k] = t
                  /\ \A j \in 1 .. Len(vec) : vec[j].name = t.name => j = k
                  /\ \A i \in 1 .. Len(before) :
                        before[i] = vec[IF i < k THEN i ELSE i + 1]

\* C31's case: an element with a new name was inserted into a collection of
\* two elements that a patch had left in descending order.
C31_Witness ==
    /\ vlast.some
    /\ IndexOfName(vlast.v.before, vlast.v.arg.name) = 0
    /\ Len(vlast.v.before) = 2
    /\ ~TagsSorted(vlast.v.before)
    /\ Len(vec) = 3

(***************************************************************************)
(* SpecMods: an OrderedVec<Mod> built from a Vec<Mod>, then tags attached  *)
(* with upsert_tag_to.                                                     *)
(***************************************************************************)
Core == <<"C", "o", "r", "e">>
Quality == <<"Q", "u", "a", "l", "i", "t", "y">>
ModTags == [name : {Core, Quality}, score : Scores, color : {"Red"}]

ModA(tags) == [id |-> <<"p", "a">>, name |-> <<"A">>, tags |-> tags]
ModB(tags) == [id |-> <<"p", "b">>, name |-> <<"B">>, tags |-> tags]
ModC(tags) == [id |-> <<"p", "c">>, name |-> <<"C">>, tags |-> tags]

Core0 == [name |-> Core, score |-> 0, color |-> "Red"]
Quality5 == [name |-> Quality, score |-> 5, color |-> "Red"]
InputTags == {<<>>, <<Core0>>, <<Quality5>>}

Permutations3(a, b, c) ==
    {<<a, b, c>>, <<a, c, b>>, <<b, a, c>>, <<b, c, a>>, <<c, a, b>>, <<c, b, a>>}

ModInputs ==
    UNION {Permutations3(ModA(ta), ModB(tb), ModC(tc)) :
              ta \in InputTags, tb \in InputTags, tc \in InputTags}

\* Shorter inputs: the empty sequence, one item, two items that compare by
\* name only, and sequences that hold the same item twice.
ShortInputs ==
    {<<>>,
     <<ModA(<<>>)>>,
     <<ModB(<<Core0>>), ModA(<<Core0>>)>>,
     <<ModA(<<>>), ModA(<<>>)>>,
     <<ModC(<<>>), ModA(<<Quality5>>), ModC(<<>>)>>}

InitMods ==
    /\ \E value \in ModInputs \cup ShortInputs :
          /\ ms = FromVec(value)
          /\ mlast = [op |-> "from", input |-> value]
    /\ VecIdle
    /\ FormIdle
    /\ CtlIdle

ModsUpsertTagTo ==
    \E mod_idx \in 0 .. Len(ms) - 1, tag \in ModTags :
        /\ ms' \in UpsertTagTo(ms, mod_idx, tag)
        /\ mlast' = [op |-> "upsert_tag_to",
                     untagged |-> ms[mod_idx + 1].tags = <<>>,
                     patched |-> IndexOfName(ms[mod_idx + 1].tags, tag.name) # 0]
        /\ UNCHANGED <<vecVars, formVars, ctlVars>>

NextMods == ModsUpsertTagTo

SpecMods == InitMods /\ [][NextMods]_vars

NamesOf(data) == [i \in 1 .. Len(data) |-> data[i].name]

\* C3: after attach_tag (upsert_tag_to) with the index in range, every
\* adjacent pair of the item collection compares not-Greater, whatever the
\* prior state and the tag, also when the item leaves the untagged bucket or
\* a tag it already has is patched.
C3_SortedAfterAttach == mlast.op = "upsert_tag_to" => ModsSorted(ms)

\* C3's case: an attachment moved an item out of the untagged bucket while
\* another item stayed untagged, and one patched a tag already attached.
C3_Witness ==
    /\ mlast.op = "upsert_tag_to"
    /\ mlast.untagged
    /\ \E i \in 1 .. Len(ms) : ms[i].tags = <<>>
    /\ \E i \in 1 .. Len(ms) : Len(ms[i].tags) = 2 /\ ~TagsSorted(ms[i].tags)

\* C10 as stated: building the collection from A (one tag of score 5), B (one
\* tag of score 0) and C (no tags), in any input order, gives [A, B, C].
C10_ExampleInput ==
    /\ mlast.op = "from"
    /\ mlast.input \in Permutations3(ModA(<<Quality5>>), ModB(<<Core0>>), ModC(<<>>))

C10_OrderABC == C10_ExampleInput => NamesOf(ms) = <<<<"A">>, <<"B">>, <<"C">>>>

\* C10 amended: the same construction gives [B, A, C]: the score sequence [0]
\* of B is less than the score sequence [5] of A, and untagged C is last.
C10_OrderBAC == C10_ExampleInput => NamesOf(ms) = <<<<"B">>, <<"A">>, <<"C">>>>

\* C10's case: the collection was built from the example given as <<C, A, B>>.
C10_Witness ==
    /\ C10_ExampleInput
    /\ NamesOf(mlast.input) = <<<<"C">>, <<"A">>, <<"B">>>>

\* The lexicographic ascending order of two sequences of numbers: the first
\* position where they differ decides, and a proper prefix is Less.
Differ(s, t) == {k \in 1 .. Min(Len(s), Len(t)) : s[k] # t[k]}

LexOrder(s, t) ==
    IF Differ(s, t) = {} THEN IntCmp(Len(s), Len(t))
    ELSE LET k == CHOOSE d \in Differ(s, t) : \A e \in Differ(s, t) : d <= e
         IN  IntCmp(s[k], t[k])

\* the ascending order of two names: the lexicographic order of their bytes
NameOrder(n, m) ==
    LexOrder([i \in 1 .. Len(n) |-> Byte(n[i])], [i \in 1 .. Len(m) |-> Byte(m[i])])

\* the item comparison as C11 states it
ItemOrder(a, b) ==
    IF a.tags = <<>> /\ b.tags = <<>> THEN NameOrder(a.name, b.name)
    ELSE IF a.tags = <<>> THEN "Greater"
    ELSE IF b.tags = <<>> THEN "Less"
    ELSE IF LexOrder(ScoresOf(a.tags), ScoresOf(b.tags)) # "Equal"
    THEN LexOrder(ScoresOf(a.tags), ScoresOf(b.tags))
    ELSE NameOrder(a.name, b.name)

\* C11: Mod::vec_order is exactly: an untagged item is Greater than any tagged
\* item; two tagged items compare by the lexicographic ascending order of
\* their tag-score sequences, equal sequences by item name ascending; two
\* untagged items compare by item name ascending.  Checked on every pair of
\* items of every collection that is built and re-sorted.
C11_ItemOrder ==
    \A i, j \in 1 .. Len(ms) : ModVecOrder(ms[i], ms[j]) = ItemOrder(ms[i], ms[j])

\* C11's case: a re-sorted collection holding two tagged items with equal
\* score sequences of two scores, in name order, and an untagged item last.
C11_Witness ==
    /\ mlast.op = "upsert_tag_to"
    /\ Len(ms) = 3
    /\ ScoresOf(ms[1].tags) = <<0, 5>>
    /\ ScoresOf(ms[2].tags) = <<0, 5>>
    /\ ms[3].tags = <<>>

\* b holds the elements of a, each as often as a does
IsPermutation(a, b) ==
    /\ Len(a) = Len(b)
    /\ \E perm \in [1 .. Len(a) -> 1 .. Len(a)] :
          /\ \A i, j \in 1 .. Len(a) : perm[i] = perm[j] => i = j
          /\ \A i \in 1 .. Len(a) : b[perm[i]] = a[i]

\* C30: constructing an OrderedVec from any finite sequence yields a
\* permutation of that sequence (same elements, same length) in which every
\* adjacent pair (a, b) satisfies vec_order(a, b) # Greater.
C30_FromSortsAPermutation ==
    mlast.op = "from" =>
        /\ IsPermutation(mlast.input, ms)
        /\ \A i \in 1 .. Len(ms) - 1 : ItemOrder(ms[i], ms[i + 1]) # "Greater"

\* C30's case: the collection was built from a sequence that holds the
\* untagged item C twice, around a tagged item, which comes first.
C30_Witness ==
    /\ mlast.op = "from"
    /\ mlast.input = <<ModC(<<>>), ModA(<<Quality5>>), ModC(<<>>)>>
    /\ ms = <<ModA(<<Quality5>>), ModC(<<>>), ModC(<<>>)>>

\* Ordering::reverse
Reverse(ordering) ==
    IF ordering = "Less" THEN "Greater"
    ELSE IF ordering = "Greater" THEN "Less"
    ELSE "Equal"

\* every tag attached to an item of the collection
AttachedTags(data) ==
    UNION {{data[i].tags[j] : j \in 1 .. Len(data[i].tags)} : i \in 1 .. Len(data)}

\* C38: the item comparison is a consistent total preorder over items whose
\* tag sub-collections may be unsorted: compare(a, b) is the reverse of
\* compare(b, a), compare(a, a) is Equal, and the relation is transitive; the
\* tag comparison is a total order in which Equal holds exactly when score
\* and name are both equal.  Checked on the items and the attached tags of
\* every collection that is built and re-sorted.
C38_ComparisonsConsistent ==
    /\ \A i, j, k \in 1 .. Len(ms) :
          /\ ModVecOrder(ms[i], ms[j]) \in {"Less", "Equal", "Greater"}
          /\ ModVecOrder(ms[i], ms[j]) = Reverse(ModVecOrder(ms[j], ms[i]))
          /\ ModVecOrder(ms[i], ms[i]) = "Equal"
          /\ (ModVecOrder(ms[i], ms[j]) # "Greater"
                /\ ModVecOrder(ms[j], ms[k]) # "Greater") =>
                 /\ ModVecOrder(ms[i], ms[k]) # "Greater"
                 /\ ModVecOrder(ms[i], ms[k]) = "Equal" =>
                       /\ ModVecOrder(ms[i], ms[j]) = "Equal"
                       /\ ModVecOrder(ms[j], ms[k]) = "Equal"
    /\ \A s, t, u \in AttachedTags(ms) :
          /\ TagVecOrder(s, t) \in {"Less", "Equal", "Greater"}
          /\ TagVecOrder(s, t) = Reverse(TagVecOrder(t, s))
          /\ TagVecOrder(s, t) = "Equal" <=> (s.score = t.score /\ s.name = t.name)
          /\ (TagVecOrder(s, t) # "Greater" /\ TagVecOrder(t, u) # "Greater") =>
                 TagVecOrder(s, u) # "Greater"

\* C38's case: a re-sorted collection of three items in which two items
\* carry the same unsorted score sequence [5, 0] and the third is untagged,
\* with tags of both names and both scores attached.
C38_Witness ==
    /\ mlast.op = "upsert_tag_to"
    /\ Len(ms) = 3
    /\ ScoresOf(ms[1].tags) = <<5, 0>>
    /\ ScoresOf(ms[2].tags) = <<5, 0>>
    /\ ms[3].tags = <<>>
    /\ Cardinality(AttachedTags(ms)) >= 2

(***************************************************************************)
(* FormState<TagForm>: the form of src/src/app/widgets/form.rs.            *)
(* form = [curr_buff, index, spec, selected_color], spec = the TagForm     *)
(* [name, score, color].  The edit cursor stays at the end of the buffer.  *)
(***************************************************************************)
PollNextField == [kind |-> "NextField"]
PollInvalid == [kind |-> "Invalid"]
PollDone(tag) == [kind |-> "Done", tag |-> tag]

\* impl Default for TagForm, with the triple random_color() returned
TagFormDefault(rgb) ==
    [name |-> <<>>, score |-> None, color |-> Rgb(rgb[1], rgb[2], rgb[3])]

\* TagForm::try_into_key, the arm that builds the Tag from `color`; panic is
\* score.unwrap() on None
TagFormDone(spec, color) ==
    IF spec.score.some
    THEN [spec |-> [spec EXCEPT !.color = color],
          poll |-> PollDone([name |-> spec.name, score |-> spec.score.v,
                             color |-> color]),
          panic |-> FALSE]
    ELSE [spec |-> [spec EXCEPT !.color = color], poll |-> PollInvalid,
          panic |-> TRUE]

\* TagForm::try_into_key, key 0, accepting the empty name as well
TagFormSetNameAcceptsEmpty(spec, name) ==
    [spec |-> [spec EXCEPT !.name = name], poll |-> PollNextField,
     panic |-> FALSE]

\* TagForm::try_into_key, key 0 with the trimmed content
TagFormSetName(spec, name) ==
    IF name # <<>>
    THEN [spec |-> [spec EXCEPT !.name = name], poll |-> PollNextField,
          panic |-> FALSE]
    ELSE [spec |-> spec, poll |-> PollInvalid, panic |-> FALSE]

\* TagForm::try_into_key, key 1 with the result of content.trim().parse()
TagFormSetScore(spec, parsed) ==
    IF parsed.some
    THEN [spec |-> [spec EXCEPT !.score = Some(parsed.v)], poll |-> PollNextField,
          panic |-> FALSE]
    ELSE [spec |-> spec, poll |-> PollInvalid, panic |-> FALSE]

\* TagForm::try_into_key, key 2, answering NextField where the color parses
TagFormSetColorAdvances(spec, parsed) ==
    IF parsed.some
    THEN [spec |-> [spec EXCEPT !.color = parsed.v], poll |-> PollNextField,
          panic |-> FALSE]
    ELSE [spec |-> spec, poll |-> PollInvalid, panic |-> FALSE]

\* TagForm::try_into_key, key 2 with the result of Color::from_str(content)
TagFormSetColor(spec, parsed) ==
    IF parsed.some
    THEN TagFormDone(spec, parsed.v)
    ELSE [spec |-> spec, poll |-> PollInvalid, panic |-> FALSE]

\* TagForm::try_into_key: [spec, poll, panic]
TagFormTryIntoKey(spec, key, content) ==
    IF key = 0 THEN TagFormSetName(spec, Trim(content))
    ELSE IF key = 1 THEN TagFormSetScore(spec, ParseU64(Trim(content)))
    ELSE IF key = 2 THEN TagFormSetColor(spec, ColorFromStr(content))
    ELSE TagFormDone(spec, spec.color)

\* TagForm::read_key
TagFormReadKey(spec, key) ==
    IF key = 0 THEN (IF spec.name # <<>> THEN Some(spec.name) ELSE None)
    ELSE IF key = 1 THEN (IF spec.score.some THEN Some(DecimalText(spec.score.v)) ELSE None)
    ELSE IF key = 2 THEN Some(ColorToString(spec.color))
    ELSE None

\* FormState::next, always clearing the buffer for the next field
LoadBufferEmpty(next) == <<>>

\* FormState::next, the buffer loaded for the next field: with_value(next) on
\* Some(next), value_and_reset() on None
LoadBuffer(next) == IF next.some THEN next.v ELSE <<>>

\* FormState::next after try_into_key returned res: on NextField the index
\* moves on and the buffer is loaded from read_key
FormStateAfterTry(fs, res) ==
    IF res.poll.kind = "NextField" /\ ~res.panic
    THEN [form |-> [fs EXCEPT !.spec = res.spec,
                              !.index = fs.index + 1,
                              !.curr_buff =
                                  LoadBuffer(TagFormReadKey(res.spec, fs.index + 1))],
          poll |-> res.poll, panic |-> res.panic]
    ELSE [form |-> [fs EXCEPT !.spec = res.spec],
          poll |-> res.poll, panic |-> res.panic]

\* FormState::next: [form, poll, panic]
FormStateNext(fs) ==
    FormStateAfterTry(fs, TagFormTryIntoKey(fs.spec, fs.index, fs.curr_buff))

\* Input::handle_event for the keys the model types: a character or Backspace
EditBuffer(buff, key) ==
    IF key = "Backspace"
    THEN (IF buff = <<>> THEN buff ELSE SubSeq(buff, 1, Len(buff) - 1))
    ELSE Append(buff, key)

\* FormState::handle_input on an advance key, n being what next() returned
FormStateAdvanced(n) ==
    IF n.poll.kind = "Done" /\ ~n.panic
    THEN [form |-> n.form, output |-> Some(n.poll.tag),
          poll |-> n.poll, panic |-> FALSE]
    ELSE [form |-> [n.form EXCEPT !.selected_color = n.form.spec.color],
          output |-> None, poll |-> n.poll, panic |-> n.panic]

\* FormState::handle_input on another key, acting on the side channel's
\* NextField as next() does
FormStateEditedAdvances(fs, buff, res) ==
    [form |-> [fs EXCEPT !.curr_buff = buff, !.spec = res.spec,
                         !.selected_color = res.spec.color,
                         !.index = IF res.poll.kind = "NextField" THEN @ + 1 ELSE @],
     output |-> None, poll |-> res.poll, panic |-> res.panic]

\* FormState::handle_input on another key: buff is the edited buffer, res
\* what the side channel's try_into_key returned
FormStateEdited(fs, buff, res) ==
    [form |-> [fs EXCEPT !.curr_buff = buff, !.spec = res.spec,
                         !.selected_color = res.spec.color],
     output |-> None, poll |-> res.poll, panic |-> res.panic]

\* FormState::handle_input: [form, output, poll, panic]; key is "Enter" (the
\* advance keys Insert, Tab, Enter), "Backspace" or a character
FormStateHandleInput(fs, key) ==
    IF key = "Enter"
    THEN FormStateAdvanced(FormStateNext(fs))
    ELSE FormStateEdited(fs, EditBuffer(fs.curr_buff, key),
             TagFormTryIntoKey(fs.spec, fs.index, EditBuffer(fs.curr_buff, key)))

\* FormState::reset, with the triple random_color() returns for the new spec
FormStateResetKeepsSpec(fs, rgb) ==
    [fs EXCEPT !.curr_buff = <<>>,
               !.index = 0,
               !.selected_color = fs.spec.color]

FormStateResetKeepsIndex(fs, rgb) ==
    [fs EXCEPT !.curr_buff = <<>>,
               !.spec = TagFormDefault(rgb),
               !.selected_color = TagFormDefault(rgb).color]

FormStateReset(fs, rgb) ==
    [fs EXCEPT !.curr_buff = <<>>,
               !.index = 0,
               !.spec = TagFormDefault(rgb),
               !.selected_color = TagFormDefault(rgb).color]

\* #[derive(Default)] FormState: the spec is TagForm::default(), the
\* selected color Color::default() (Reset)
FormStateDefault(rgb) ==
    [curr_buff |-> <<>>, index |-> 0, spec |-> TagFormDefault(rgb),
     selected_color |-> Named(<<"r", "e", "s", "e", "t">>)]

(***************************************************************************)
(* SpecForm: any sequence of character edits, advances and resets on one   *)
(* FormState<TagForm>.                                                     *)
(***************************************************************************)
FormChars == {"a", "1", " "}

\* The texts the model lets grow: shorter than MaxBuf, or a preloaded
\* "#RRGGBB", to which one more character may be typed.
CanType(buff) == Len(buff) < MaxBuf \/ (Len(buff) = 7 /\ buff[1] = "#")

\* History of the form: the Name and the Score the advances of this session
\* accepted, what the last advance returned and at which field, and the field
\* at which the last reset() was called.
NoHistory ==
    [name |-> None, score |-> None, poll |-> None, at |-> 0, reset |-> None]

InitForm ==
    /\ \E rgb \in RandomColors : form = FormStateDefault(rgb)
    /\ fpanic = FALSE
    /\ fhist = NoHistory
    /\ VecIdle
    /\ ModsIdle
    /\ CtlIdle

FormEdit ==
    \E key \in FormChars \cup {"Backspace"} :
        /\ ~fpanic
        /\ key \in FormChars => CanType(form.curr_buff)
        /\ \E r \in {FormStateHandleInput(form, key)} :
               /\ form' = r.form
               /\ fpanic' = r.panic
        /\ UNCHANGED <<fhist, vecVars, modVars, ctlVars>>

FormAdvance ==
    /\ ~fpanic
    /\ \E r \in {FormStateHandleInput(form, "Enter")} :
           /\ form' = r.form
           /\ fpanic' = r.panic
           /\ fhist' =
                [name |-> IF form.index = 0 /\ r.poll.kind = "NextField"
                          THEN Some(Trim(form.curr_buff)) ELSE fhist.name,
                 score |-> IF form.index = 1 /\ r.poll.kind = "NextField"
                           THEN ParseU64(Trim(form.curr_buff)) ELSE fhist.score,
                 poll |-> Some(r.poll),
                 at |-> form.index,
                 reset |-> fhist.reset]
    /\ UNCHANGED <<vecVars, modVars, ctlVars>>

FormReset ==
    /\ ~fpanic
    /\ \E rgb \in RandomColors : form' = FormStateReset(form, rgb)
    /\ fhist' = [NoHistory EXCEPT !.reset = Some(form.index)]
    /\ UNCHANGED <<fpanic, vecVars, modVars, ctlVars>>

NextForm == FormEdit \/ FormAdvance \/ FormReset

SpecForm == InitForm /\ [][NextForm]_vars

\* C7: in FormState<TagForm>, under any sequence of character edits, advances
\* and resets, an advance returns Done only at field index 2 and only after a
\* non-empty Name and a Score were accepted by advances of the same session;
\* the Tag holds exactly those two values, and building it never panics on a
\* missing score.
C7_DoneOnlyAfterNameAndScore ==
    /\ ~fpanic
    /\ (fhist.poll.some /\ fhist.poll.v.kind = "Done") =>
          /\ fhist.at = 2
          /\ fhist.name.some /\ fhist.name.v # <<>>
          /\ fhist.score.some
          /\ fhist.poll.v.tag.name = fhist.name.v
          /\ fhist.poll.v.tag.score = fhist.score.v

\* C7's case: an advance at the Color field returned Done, with a Name that
\* was trimmed when accepted and a color typed over the preloaded one.
C7_Witness ==
    /\ fhist.poll.some /\ fhist.poll.v.kind = "Done"
    /\ fhist.at = 2
    /\ fhist.poll.v.tag.color.kind = "Indexed"
    /\ fhist.poll.v.tag.name = <<"a">>
    /\ fhist.poll.v.tag.score = 11

\* The form as reset() leaves it, whatever was typed into the Name buffer
\* since: field 0, no score accepted yet.
FreshlyReset(fs) == fs.index = 0 /\ fs.spec.score = None

\* C12: in a freshly reset tag form, an advance with an empty Name buffer (or
\* one that is empty after trimming) returns Invalid and leaves the field
\* index at 0; an advance with a Name buffer that is non-empty after trimming
\* returns NextField, moves the field index to 1 and leaves the edit buffer
\* empty.
C12_AdvanceAtName ==
    [][(FormAdvance /\ FreshlyReset(form)) =>
          IF Trim(form.curr_buff) = <<>>
          THEN /\ fhist'.poll = Some(PollInvalid)
               /\ form'.index = 0
               /\ form'.curr_buff = form.curr_buff
          ELSE /\ fhist'.poll = Some(PollNextField)
               /\ form'.index = 1
               /\ form'.curr_buff = <<>>
               /\ form'.spec.name = Trim(form.curr_buff)]_vars

\* Field 0 is only ever left by an advance, so a form at field 0 is freshly
\* reset.
C12_NameFieldIsFresh == form.index = 0 => FreshlyReset(form)

\* C12's case: the advance at the Name field that accepted "a" has just moved
\* the form to the Score field with an empty buffer.
C12_Witness ==
    /\ fhist.at = 0
    /\ fhist.poll = Some(PollNextField)
    /\ fhist.name = Some(<<"a">>)
    /\ form.index = 1
    /\ form.curr_buff = <<>>
    /\ form.spec.score = None

\* C34: for any sequence of handle_input, next and reset calls on
\* FormState<TagForm> the field index stays below the number of prompts
\* (index <= 2): the index changes only by an advance that moves it from
\* field 0 or 1 to the next field and by a reset that zeroes it, and once an
\* advance has returned Done no later call increments it.
C34_IndexBelowPrompts ==
    /\ [](form.index <= 2)
    /\ [][form'.index # form.index =>
              \/ FormAdvance /\ form.index \in {0, 1} /\ form'.index = form.index + 1
              \/ FormReset /\ form'.index = 0]_vars
    /\ [][(fhist.poll.some /\ fhist.poll.v.kind = "Done") =>
              form'.index <= form.index]_vars

\* C34's case: an advance at the Color field returned Done on the preloaded
\* color, the field is still field 2 and a character was typed after it.
C34_Witness ==
    /\ fhist.poll.some /\ fhist.poll.v.kind = "Done"
    /\ fhist.poll.v.tag.color.kind = "Rgb"
    /\ fhist.at = 2
    /\ form.index = 2
    /\ Len(form.curr_buff) = 8
    /\ ~fpanic

(***************************************************************************)
(* Model: the controller of src/src/app.rs.  model = [should_close,        *)
(* current_mode, movement_delta, input_buffer, input_collection,           *)
(* input_index, input_special, table_state, list_state, persistent], with  *)
(* persistent = [mods, tags].  input_collection maps each prompt to the    *)
(* text stored under it, None when the key is absent.  A key is a          *)
(* one-character string (KeyCode::Char) or the name of a KeyCode.          *)
(***************************************************************************)
ClearCommand == [kind |-> "ClearCommand"]
AppendMovement(ch) == [kind |-> "AppendMovement", ch |-> ch]
MoveDirection(direction) == [kind |-> "MoveDirection", direction |-> direction]
PropagateEvent(ev) == [kind |-> "PropagateEvent", ev |-> ev]
NextField == [kind |-> "NextField"]
InsertTag == [kind |-> "InsertTag"]
ChangeMode(mode) == [kind |-> "ChangeMode", mode |-> mode]
Exit == [kind |-> "Exit"]

Prompts == <<"Name", "Score", "Color">>
EmptyCollection == [Name |-> None, Score |-> None, Color |-> None]

\* #[derive(Default)] Model
ModelDefault ==
    [should_close |-> FALSE, current_mode |-> "Normal", movement_delta |-> <<>>,
     input_buffer |-> <<>>, input_collection |-> EmptyCollection,
     input_index |-> 0, input_special |-> Named(<<"r", "e", "s", "e", "t">>),
     table_state |-> None, list_state |-> None,
     persistent |-> [mods |-> <<>>, tags |-> <<>>]]

\* Model::set_persistent: both tests read p.mods
SetPersistent(self, p) ==
    [self EXCEPT !.table_state = IF p.mods # <<>> THEN Some(0) ELSE @,
                 !.list_state = IF p.mods # <<>> THEN Some(0) ELSE @,
                 !.persistent = p]

\* Model::view, what it changes in the Model: draw_popup in CreateTag moves
\* the text stored under the current field's prompt into the edit buffer.
\* (The stateful renders of the table and of the list leave a selection
\* below the number of rendered rows as it is; the list of an empty tag
\* collection renders the one row "N/A".)
DrawPopup(self) ==
    IF self.current_mode = "CreateTag" /\ self.input_index < Len(Prompts)
       /\ self.input_collection[Prompts[self.input_index + 1]].some
    THEN [self EXCEPT
            !.input_buffer = self.input_collection[Prompts[self.input_index + 1]].v,
            !.input_collection[Prompts[self.input_index + 1]] = None]
    ELSE self

\* What try_message and update return to the host loop: the Model, the
\* Option<Message>, and whether the call panicked.
Returned(self, m) == [model |-> self, msg |-> m, panic |-> FALSE]
Panicked(self) == [model |-> self, msg |-> None, panic |-> TRUE]

UpKeys == {"k", "Up"}
DownKeys == {"j", "Down"}
LeftKeys == {"h", "Left"}
RightKeys == {"l", "Right"}

\* the four movement arms shared by normal_key_press and insert_key_press
MovementKeyPress(key) ==
    IF key \in UpKeys THEN Some(MoveDirection("Up"))
    ELSE IF key \in DownKeys THEN Some(MoveDirection("Down"))
    ELSE IF key \in LeftKeys THEN Some(MoveDirection("Left"))
    ELSE IF key \in RightKeys THEN Some(MoveDirection("Right"))
    ELSE None

\* normal_key_press; '?' is todo!()
NormalKeyPress(self, key) ==
    IF key = "Esc" THEN Returned(self, Some(ClearCommand))
    ELSE IF key \in Digits THEN Returned(self, Some(AppendMovement(key)))
    ELSE IF key = "q" THEN Returned(self, Some(Exit))
    ELSE IF key = "T" THEN Returned(self, Some(ChangeMode("CreateTag")))
    ELSE IF key = "t" THEN Returned(self, Some(ChangeMode("ShowTags")))
    ELSE IF key = "i" THEN Returned(self, Some(ChangeMode("Insert")))
    ELSE IF key = "?" THEN Panicked(self)
    ELSE Returned(self, MovementKeyPress(key))

\* show_tags_key_press with the digits mapped as in Normal mode
ShowTagsKeyPressCounts(self, key) ==
    IF key = "Esc" THEN Returned(self, Some(ChangeMode("Normal")))
    ELSE IF key \in Digits THEN Returned(self, Some(AppendMovement(key)))
    ELSE Returned(self, None)

\* show_tags_key_press
ShowTagsKeyPress(self, key) ==
    IF key = "Esc" THEN Returned(self, Some(ChangeMode("Normal")))
    ELSE Returned(self, None)

\* insert_key_press with 'q' mapped as in Normal mode
InsertKeyPressQuits(self, key) ==
    IF key = "Esc" THEN Returned(self, Some(ChangeMode("Normal")))
    ELSE IF key = "q" THEN Returned(self, Some(Exit))
    ELSE IF key = "Enter" THEN Returned(self, Some(InsertTag))
    ELSE IF key \in Digits THEN Returned(self, Some(AppendMovement(key)))
    ELSE Returned(self, MovementKeyPress(key))

\* insert_key_press
InsertKeyPress(self, key) ==
    IF key \in {"Esc", "q"} THEN Returned(self, Some(ChangeMode("Normal")))
    ELSE IF key = "Enter" THEN Returned(self, Some(InsertTag))
    ELSE IF key \in Digits THEN Returned(self, Some(AppendMovement(key)))
    ELSE Returned(self, MovementKeyPress(key))

\* try_message on a key press, the CreateTag arm counting digits as the
\* Normal and Insert arms do
TryMessageCountsInForm(self, key) ==
    IF self.current_mode = "Normal" THEN NormalKeyPress(self, key)
    ELSE IF self.current_mode = "CreateTag"
    THEN (IF key = "Esc" THEN Returned(self, Some(ChangeMode("Normal")))
          ELSE IF key \in {"Insert", "Tab", "Enter"} THEN Returned(self, Some(NextField))
          ELSE IF key \in Digits THEN Returned(self, Some(AppendMovement(key)))
          ELSE Returned(self, Some(PropagateEvent(key))))
    ELSE IF self.current_mode = "ShowTags" THEN ShowTagsKeyPress(self, key)
    ELSE InsertKeyPress(self, key)

\* try_message on a key press
TryMessage(self, key) ==
    IF self.current_mode = "Normal" THEN NormalKeyPress(self, key)
    ELSE IF self.current_mode = "CreateTag"
    THEN (IF key = "Esc" THEN Returned(self, Some(ChangeMode("Normal")))
          ELSE IF key \in {"Insert", "Tab", "Enter"} THEN Returned(self, Some(NextField))
          ELSE Returned(self, Some(PropagateEvent(key))))
    ELSE IF self.current_mode = "ShowTags" THEN ShowTagsKeyPress(self, key)
    ELSE InsertKeyPress(self, key)

\* usize::saturating_sub
SaturatingSub(a, b) == IF a > b THEN a - b ELSE 0

\* movement_delta.parse() saturating at usize::MAX where it overflows
RepeatCountSaturates(movement_delta) ==
    IF movement_delta = <<>> THEN 1
    ELSE DigitsValue(movement_delta, 0)

\* movement_delta.parse().unwrap_or(1), a usize of 64 bits
RepeatCount(movement_delta) ==
    IF ParseU64(movement_delta).some THEN ParseU64(movement_delta).v ELSE 1

\* update, MoveDirection: the new selection of a cursor over len elements,
\* as moved without the clamp to the last element
MoveCursorUnclamped(selected, direction, d, len) ==
    IF ~selected.some THEN None
    ELSE IF direction \in {"Up", "Left"} THEN Some(SaturatingSub(selected.v, d))
    ELSE Some(selected.v + d)

\* update, MoveDirection: the new selection of a cursor over len elements
\* (saturating_add cannot overflow below the saturated values of the model)
MoveCursor(selected, direction, d, len) ==
    IF ~selected.some THEN None
    ELSE IF direction \in {"Up", "Left"} THEN Some(SaturatingSub(selected.v, d))
    ELSE Some(Min(selected.v + d, SaturatingSub(len, 1)))

\* update, ClearCommand, asking for one more ClearCommand after it cleared a
\* non-empty repeat buffer
UpdateClearCommandTwice(self) ==
    {Returned([self EXCEPT !.movement_delta = <<>>],
              IF self.movement_delta # <<>> THEN Some(ClearCommand) ELSE None)}

\* update, ClearCommand
UpdateClearCommand(self) ==
    {Returned([self EXCEPT !.movement_delta = <<>>], None)}

\* update, AppendMovement(ch)
UpdateAppendMovement(self, ch) ==
    {Returned([self EXCEPT !.movement_delta = Append(@, ch)], None)}

\* update, MoveDirection(direction)
UpdateMoveDirection(self, direction) ==
    IF self.current_mode = "Normal"
    THEN {Returned([self EXCEPT !.table_state =
                        MoveCursor(@, direction, RepeatCount(self.movement_delta),
                                   Len(self.persistent.mods))],
                   Some(ClearCommand))}
    ELSE IF self.current_mode = "Insert"
    THEN {Returned([self EXCEPT !.list_state =
                        MoveCursor(@, direction, RepeatCount(self.movement_delta),
                                   Len(self.persistent.tags))],
                   Some(ClearCommand))}
    ELSE {Returned(self, Some(ClearCommand))}

\* update, PropagateEvent: the color stored under "Color", when it parses,
\* becomes input_special
SpecialColor(input_special, stored) ==
    IF stored.some
    THEN (IF ColorFromStr(stored.v).some THEN ColorFromStr(stored.v).v
          ELSE input_special)
    ELSE input_special

\* update, PropagateEvent(key)
UpdatePropagateEvent(self, ev) ==
    {Returned([self EXCEPT
                 !.input_buffer = EditBuffer(@, ev),
                 !.input_special = SpecialColor(@, self.input_collection.Color)],
              None)}

\* update, InsertTag, the selected tag replacing the tags of the item instead
\* of being upserted into them
AttachSelectedReplaces(self) ==
    {Returned([self EXCEPT
                 !.list_state = Some(0),
                 !.persistent.mods =
                     SortMods([self.persistent.mods EXCEPT
                                  ![self.table_state.v + 1].tags =
                                      <<self.persistent.tags[self.list_state.v + 1]>>])],
              Some(ChangeMode("Normal")))}

\* the position in mods of the first item with that identifier
PositionOf(mods, id) ==
    CHOOSE i \in 1 .. Len(mods) :
        /\ mods[i].id = id
        /\ \A j \in 1 .. i - 1 : mods[j].id # id

\* update, InsertTag, the item cursor following the item that received the
\* tag to its place after the re-sort
AttachSelectedFollows(self) ==
    {Returned([self EXCEPT
                 !.list_state = Some(0),
                 !.table_state =
                     Some(PositionOf(mods,
                             self.persistent.mods[self.table_state.v + 1].id) - 1),
                 !.persistent.mods = mods],
              Some(ChangeMode("Normal"))) :
        mods \in UpsertTagTo(self.persistent.mods, self.table_state.v,
                             self.persistent.tags[self.list_state.v + 1])}

\* update, InsertTag, once both cursors are known to be in range
AttachSelected(self) ==
    {Returned([self EXCEPT !.list_state = Some(0), !.persistent.mods = mods],
              Some(ChangeMode("Normal"))) :
        mods \in UpsertTagTo(self.persistent.mods, self.table_state.v,
                             self.persistent.tags[self.list_state.v + 1])}

\* update, InsertTag: the unwraps of list_state.selected(), tags.get(..),
\* table_state.selected() and, in upsert_tag_to, get_mut(mod_idx)
UpdateInsertTag(self) ==
    IF ~self.list_state.some THEN {Panicked(self)}
    ELSE IF self.list_state.v >= Len(self.persistent.tags) THEN {Panicked(self)}
    ELSE IF ~self.table_state.some THEN {Panicked(self)}
    ELSE IF self.table_state.v >= Len(self.persistent.mods) THEN {Panicked(self)}
    ELSE AttachSelected(self)

\* every attached copy of the tag `other` patched as the catalogue entry is
PatchCopies(mods, other) ==
    [i \in 1 .. Len(mods) |->
        [mods[i] EXCEPT !.tags =
            [j \in 1 .. Len(mods[i].tags) |->
                IF mods[i].tags[j].name = other.name
                THEN TagPatch(mods[i].tags[j], other)
                ELSE mods[i].tags[j]]]]

\* update, NextField at the Color field, the new values carried over to the
\* copies of the tag attached to items
CompleteTagPatchesCopies(self, color) ==
    {Returned([self EXCEPT !.input_buffer = <<>>,
                           !.input_collection = EmptyCollection,
                           !.input_index = 0,
                           !.list_state = Some(0),
                           !.persistent.tags = tags,
                           !.persistent.mods =
                               PatchCopies(@, [name |-> self.input_collection.Name.v,
                                               score |-> ParseU64(self.input_collection.Score.v).v,
                                               color |-> color])],
              Some(ChangeMode("Normal"))) :
        tags \in Upsert(self.persistent.tags,
                        [name |-> self.input_collection.Name.v,
                         score |-> ParseU64(self.input_collection.Score.v).v,
                         color |-> color])}

\* update, NextField at the Color field once the text parsed as `color` and
\* Name and Score are present: the tag is upserted and the form cleared
CompleteTag(self, color) ==
    {Returned([self EXCEPT !.input_buffer = <<>>,
                           !.input_collection = EmptyCollection,
                           !.input_index = 0,
                           !.list_state = Some(0),
                           !.persistent.tags = tags],
              Some(ChangeMode("Normal"))) :
        tags \in Upsert(self.persistent.tags,
                        [name |-> self.input_collection.Name.v,
                         score |-> ParseU64(self.input_collection.Score.v).v,
                         color |-> color])}

\* update, NextField at the Color field, `parsed` being Color::from_str of
\* the buffer; the unwraps are get("Name"), get("Score") and the parse of
\* the stored Score
AcceptColor(self, parsed) ==
    IF ~parsed.some THEN {Returned(self, None)}
    ELSE IF ~self.input_collection.Name.some THEN {Panicked(self)}
    ELSE IF ~self.input_collection.Score.some THEN {Panicked(self)}
    ELSE IF ~ParseU64(self.input_collection.Score.v).some THEN {Panicked(self)}
    ELSE CompleteTag(self, parsed.v)

\* update, NextField, with an edit buffer that is emptied whenever the text
\* is rejected
UpdateNextFieldClears(self) ==
    IF self.current_mode # "CreateTag" THEN {Returned(self, None)}
    ELSE IF self.input_index = 0
    THEN (IF self.input_buffer # <<>>
          THEN {Returned([self EXCEPT !.input_collection.Name = Some(self.input_buffer),
                                      !.input_buffer = <<>>,
                                      !.input_index = @ + 1], None)}
          ELSE {Returned(self, None)})
    ELSE IF self.input_index = 1
    THEN (IF ParseU64(self.input_buffer).some
          THEN {Returned([self EXCEPT !.input_collection.Score = Some(self.input_buffer),
                                      !.input_buffer = <<>>,
                                      !.input_index = @ + 1], None)}
          ELSE {Returned([self EXCEPT !.input_buffer = <<>>], None)})
    ELSE IF ColorFromStr(self.input_buffer).some
    THEN AcceptColor(self, ColorFromStr(self.input_buffer))
    ELSE {Returned([self EXCEPT !.input_buffer = <<>>], None)}

\* update, NextField
UpdateNextField(self) ==
    IF self.current_mode # "CreateTag" THEN {Returned(self, None)}
    ELSE IF self.input_index = 0
    THEN (IF self.input_buffer # <<>>
          THEN {Returned([self EXCEPT !.input_collection.Name = Some(self.input_buffer),
                                      !.input_buffer = <<>>,
                                      !.input_index = @ + 1], None)}
          ELSE {Returned(self, None)})
    ELSE IF self.input_index = 1
    THEN (IF ParseU64(self.input_buffer).some
          THEN {Returned([self EXCEPT !.input_collection.Score = Some(self.input_buffer),
                                      !.input_buffer = <<>>,
                                      !.input_index = @ + 1], None)}
          ELSE {Returned(self, None)})
    ELSE AcceptColor(self, ColorFromStr(self.input_buffer))

\* update, ChangeMode(mode), without a follow-up
UpdateChangeModeOnly(self, mode, rgb) ==
    {Returned([self EXCEPT !.current_mode = mode], None)}

\* update, ChangeMode(mode), returning the same message as its follow-up
UpdateChangeModeAgain(self, mode, rgb) ==
    {Returned([self EXCEPT !.current_mode = mode], Some(ChangeMode(mode)))}

\* update, ChangeMode(mode); rgb is what random_color() returns when the
\* mode is CreateTag
UpdateChangeMode(self, mode, rgb) ==
    IF mode = "CreateTag"
    THEN {Returned([self EXCEPT
                      !.input_collection =
                          [EmptyCollection EXCEPT !.Color =
                              Some(<<"#">> \o HexPair(rgb[1], HexLower)
                                           \o HexPair(rgb[2], HexLower)
                                           \o HexPair(rgb[3], HexLower))],
                      !.input_special = Rgb(rgb[1], rgb[2], rgb[3]),
                      !.current_mode = mode],
                   Some(ClearCommand))}
    ELSE {Returned([self EXCEPT !.current_mode = mode], Some(ClearCommand))}

\* update, Exit, leaving the flag as it is
UpdateExitIgnored(self) == {Returned(self, None)}

\* update, Exit
UpdateExit(self) == {Returned([self EXCEPT !.should_close = TRUE], None)}

(***************************************************************************)
(* The host loop of src/src/main.rs (run_app): draw, poll one event,       *)
(* translate it with try_message, then apply update until it returns None. *)
(* KeyPress is an iteration that reads a key press, Timeout one that reads *)
(* nothing (or an event try_message maps to None); each Apply action is    *)
(* one turn of the inner while loop.                                       *)
(***************************************************************************)
MaxTags == 2
MaxDelta == 1
MaxText == 1

\* random_color() in the controller's runs: one of RandomColors (the
\* controller formats the triple, stores it and parses it back)
DrawnColors == {<<229, 34, 34>>}

\* The catalogues the constructor is given.
CatalogueTag == [name |-> <<"a">>, score |-> 5, color |-> Rgb(229, 34, 34)]
Catalogues ==
    {[mods |-> <<>>, tags |-> <<>>],
     [mods |-> <<>>, tags |-> <<CatalogueTag>>],
     [mods |-> FromVec(<<ModA(<<>>), ModB(<<>>)>>), tags |-> <<>>],
     [mods |-> FromVec(<<ModA(<<>>)>>), tags |-> <<CatalogueTag>>]}

\* The keys the user presses.  In CreateTag every character goes to the edit
\* buffer, so the characters typed there are the two of TypedChars.
TypedChars == {"a", "1"}
AdvanceKeys == {"Enter", "Tab"}
MovementKeys == UpKeys \cup DownKeys \cup LeftKeys \cup RightKeys
Keys ==
    {"Esc", "Backspace", "q", "T", "t", "i", "?", "x", "2"}
        \cup TypedChars \cup AdvanceKeys \cup MovementKeys
MoveKeys == {"Esc", "i", "0", "2", "9"} \cup MovementKeys

\* The bound on the repeat buffer: MaxDelta digits, or up to `longest` nines.
CanCount(movement_delta, key, longest) ==
    \/ Len(movement_delta) < MaxDelta
    \/ /\ key = "9"
       /\ Len(movement_delta) < longest
       /\ \A i \in 1 .. Len(movement_delta) : movement_delta[i] = "9"

\* The texts the user lets grow: shorter than MaxText, or a preloaded
\* "#rrggbb", to which one more character may be typed.
CanTypeText(buff) == Len(buff) < MaxText \/ (Len(buff) = 7 /\ buff[1] = "#")

\* The bounds on what the user does: the edit buffer and the repeat buffer
\* stay short, and CreateTag is entered only while the tag collection has
\* room for one more tag.
Typable(self, key, longest) ==
    IF self.current_mode = "CreateTag"
    THEN /\ key \in TypedChars \cup AdvanceKeys \cup {"Esc", "Backspace"}
         /\ key \in TypedChars => CanTypeText(self.input_buffer)
         /\ key = "Backspace" => Len(self.input_buffer) <= MaxText
    ELSE /\ key \notin TypedChars \/ key \in Digits
         /\ key = "T" => Len(self.persistent.tags) < MaxTags
         /\ (key \in Digits /\ self.current_mode # "ShowTags") =>
                CanCount(self.movement_delta, key, longest)

\* History: the script typed since CreateTag was entered from Normal.  stage
\* 1, 2, 3: the user is typing the Name, the Score, the Color and has so far
\* typed only characters and advanced only on valid texts; stage 4: the third
\* advance was pressed; stage 0: anything else.
NoScript == [stage |-> 0, name |-> <<>>, score |-> <<>>, color |-> <<>>]

ScriptText(script) ==
    IF script.stage = 1 THEN script.name
    ELSE IF script.stage = 2 THEN script.score
    ELSE script.color

ScriptValid(script) ==
    IF script.stage = 1 THEN script.name # <<>>
    ELSE IF script.stage = 2 THEN ParseU64(script.score).some
    ELSE ColorFromStr(script.color).some

ScriptTyped(script, key) ==
    IF script.stage = 1 THEN [script EXCEPT !.name = Append(@, key)]
    ELSE IF script.stage = 2 THEN [script EXCEPT !.score = Append(@, key)]
    ELSE [script EXCEPT !.color = Append(@, key)]

ScriptOnKey(script, mode, key) ==
    IF mode = "Normal"
    THEN (IF key = "T" THEN [NoScript EXCEPT !.stage = 1] ELSE NoScript)
    ELSE IF script.stage \in 1 .. 3 /\ key \in TypedChars
    THEN ScriptTyped(script, key)
    ELSE IF script.stage \in 1 .. 3 /\ key \in AdvanceKeys /\ ScriptValid(script)
    THEN [script EXCEPT !.stage = @ + 1]
    ELSE NoScript

\* History of the current iteration of the host loop: the script, the last
\* movement applied, the key press that started the action chain (kept until
\* the next key press; None when the press gave no action) and the number of
\* actions of the chain applied so far, counted up to MaxDepth and back to 0
\* when the chain has finished, and the repeat buffer as the ChangeMode of
\* the chain found it (None when the chain changed no mode).
MaxDepth == 3
NoHist ==
    [script |-> NoScript, move |-> None, pressed |-> None, depth |-> 0,
     change |-> None]

\* The cursor the current mode moves.
CursorOf(self) ==
    IF self.current_mode = "Insert" THEN self.list_state ELSE self.table_state

\* Model::default() followed by set_persistent(p)
InitModel(catalogues) ==
    /\ \E p \in catalogues : model = SetPersistent(ModelDefault, p)
    /\ msg = None
    /\ panicked = FALSE
    /\ hist = NoHist
    /\ VecIdle
    /\ ModsIdle
    /\ FormIdle

Running == ~panicked /\ ~model.should_close

\* what a call left behind in the host loop
Applied(r) ==
    /\ model' = r.model
    /\ msg' = r.msg
    /\ panicked' = r.panic

\* the history after the call of update that returned r
Counted(r) ==
    [hist EXCEPT !.depth = IF r.msg.some THEN Min(@ + 1, MaxDepth) ELSE 0]

\* one iteration of run_app that reads the press of `key`: view, then
\* try_message
PressKey(key, longest) ==
    /\ Running
    /\ msg = None
    /\ Typable(DrawPopup(model), key, longest)
    /\ \E r \in {TryMessage(DrawPopup(model), key)} :
          /\ Applied(r)
          /\ hist' = [script |-> ScriptOnKey(hist.script, model.current_mode, key),
                      move |-> None,
                      pressed |-> IF r.msg.some
                                  THEN Some([mode |-> model.current_mode,
                                             key |-> key])
                                  ELSE None,
                      depth |-> 0,
                      change |-> None]
    /\ UNCHANGED <<vecVars, modVars, formVars>>

KeyPress(keys, longest) == \E key \in keys : PressKey(key, longest)

UserKeyPress == KeyPress(Keys, MaxDelta)

\* one iteration of run_app that reads no key press: view only
Timeout ==
    /\ Running
    /\ msg = None
    /\ model' = DrawPopup(model)
    /\ UNCHANGED <<msg, panicked, hist, vecVars, modVars, formVars>>

\* the inner loop's turn is on a message of this kind
Pending(kind) == ~panicked /\ msg.some /\ msg.v.kind = kind

ApplyClearCommand ==
    /\ Pending("ClearCommand")
    /\ \E r \in UpdateClearCommand(model) : Applied(r) /\ hist' = Counted(r)
    /\ UNCHANGED <<vecVars, modVars, formVars>>

ApplyAppendMovement ==
    /\ Pending("AppendMovement")
    /\ \E r \in UpdateAppendMovement(model, msg.v.ch) : Applied(r) /\ hist' = Counted(r)
    /\ UNCHANGED <<vecVars, modVars, formVars>>

ApplyMoveDirection ==
    /\ Pending("MoveDirection")
    /\ \E r \in UpdateMoveDirection(model, msg.v.direction) :
          /\ Applied(r)
          /\ hist' = [Counted(r) EXCEPT !.move =
                         Some([mode |-> model.current_mode,
                               selected |-> CursorOf(model),
                               delta |-> model.movement_delta,
                               direction |-> msg.v.direction])]
    /\ UNCHANGED <<vecVars, modVars, formVars>>

ApplyPropagateEvent ==
    /\ Pending("PropagateEvent")
    /\ \E r \in UpdatePropagateEvent(model, msg.v.ev) : Applied(r) /\ hist' = Counted(r)
    /\ UNCHANGED <<vecVars, modVars, formVars>>

ApplyInsertTag ==
    /\ Pending("InsertTag")
    /\ \E r \in UpdateInsertTag(model) : Applied(r) /\ hist' = Counted(r)
    /\ UNCHANGED <<vecVars, modVars, formVars>>

ApplyNextField ==
    /\ Pending("NextField")
    /\ \E r \in UpdateNextField(model) : Applied(r) /\ hist' = Counted(r)
    /\ UNCHANGED <<vecVars, modVars, formVars>>

ApplyChangeMode ==
    /\ Pending("ChangeMode")
    /\ \E rgb \in DrawnColors :
          \E r \in UpdateChangeMode(model, msg.v.mode, rgb) :
              /\ Applied(r)
              /\ hist' = [Counted(r) EXCEPT !.change = Some(model.movement_delta)]
    /\ UNCHANGED <<vecVars, modVars, formVars>>

ApplyExit ==
    /\ Pending("Exit")
    /\ \E r \in UpdateExit(model) : Applied(r) /\ hist' = Counted(r)
    /\ UNCHANGED <<vecVars, modVars, formVars>>

Init == InitModel(Catalogues)

Next ==
    \/ UserKeyPress
    \/ Timeout
    \/ ApplyClearCommand
    \/ ApplyAppendMovement
    \/ ApplyMoveDirection
    \/ ApplyPropagateEvent
    \/ ApplyInsertTag
    \/ ApplyNextField
    \/ ApplyChangeMode
    \/ ApplyExit

Spec == Init /\ [][Next]_vars

(***************************************************************************)
(* SpecMove: the same host loop when the user only counts, moves and       *)
(* switches between Normal and Insert; the repeat buffer may then grow to  *)
(* the twenty digits of a number above usize::MAX.                         *)
(***************************************************************************)
SecondTag == [name |-> <<"b">>, score |-> 7, color |-> Rgb(34, 229, 34)]
MoveCatalogues ==
    {[mods |-> <<>>, tags |-> <<CatalogueTag>>],
     [mods |-> FromVec(<<ModA(<<>>), ModB(<<>>), ModC(<<>>)>>), tags |-> <<>>],
     [mods |-> FromVec(<<ModA(<<>>), ModB(<<>>), ModC(<<>>)>>),
      tags |-> <<CatalogueTag, SecondTag>>]}

InitMove == InitModel(MoveCatalogues)

MoveKeyPress == KeyPress(MoveKeys, Len(U64MaxText))

NextMove ==
    \/ MoveKeyPress
    \/ ApplyClearCommand
    \/ ApplyAppendMovement
    \/ ApplyMoveDirection
    \/ ApplyChangeMode

SpecMove == InitMove /\ [][NextMove]_vars

(***************************************************************************)
(* Properties of the controller.                                           *)
(***************************************************************************)
InRange(selected, len) == selected.some /\ selected.v < len

\* C4: in every state reachable from the constructor by any sequence of
\* input events, neither the item cursor nor the tag cursor is Some(i) with
\* i >= the length of its collection.
C4_CursorsInRange ==
    /\ model.table_state.some =>
          InRange(model.table_state, Len(model.persistent.mods))
    /\ model.list_state.some =>
          InRange(model.list_state, Len(model.persistent.tags))

\* The state the constructor returns: Model::default() with the catalogue
\* handed to set_persistent.
Constructed == model = SetPersistent(ModelDefault, model.persistent)

\* C13: the constructor normalizes each cursor from its own collection: the
\* item cursor is Some(0) exactly when the item collection is non-empty, the
\* tag cursor is Some(0) exactly when the tag collection is non-empty, and a
\* cursor over an empty collection is unset.
C13_CursorsNormalized ==
    Constructed =>
        /\ model.table_state =
              (IF model.persistent.mods # <<>> THEN Some(0) ELSE None)
        /\ model.list_state =
              (IF model.persistent.tags # <<>> THEN Some(0) ELSE None)

\* The inner loop of run_app: while msg.is_some() the next call of update is
\* taken, whatever the message.
InnerLoop ==
    \/ ApplyClearCommand
    \/ ApplyAppendMovement
    \/ ApplyMoveDirection
    \/ ApplyPropagateEvent
    \/ ApplyInsertTag
    \/ ApplyNextField
    \/ ApplyChangeMode
    \/ ApplyExit

\* The host loop with its scheduling: a pending message is always applied.
SpecLive == Init /\ [][Next]_vars /\ WF_vars(InnerLoop)

\* C14: for every reachable controller state and every action produced by
\* try_message, the apply-until-none loop terminates: applying the follow-up
\* returned by update again and again reaches None after finitely many steps.
C14_ChainTerminates == msg.some ~> msg = None

\* C14's case: the longest chain, started by the confirm key of Insert mode,
\* has come to its last follow-up.
C14_Witness ==
    /\ hist.pressed = Some([mode |-> "Insert", key |-> "Enter"])
    /\ hist.depth = 2
    /\ msg = Some(ClearCommand)

\* C15 as stated: for every external event the chain of actions applied for
\* it has depth at most 2, the action try_message produced plus at most one
\* follow-up; the pending message is action number hist.depth + 1 of its
\* chain.
C15_DepthAtMostTwo == msg.some => hist.depth + 1 <= 2

\* C15, amended: the chain has depth at most 3, and the chains of depth 3 are
\* those of the Insert-mode confirm and of the tag-form advance, which end
\* with ChangeMode(Normal) and its ClearCommand.
C15_DepthAtMostThree ==
    msg.some =>
        /\ hist.depth + 1 <= 3
        /\ hist.depth + 1 = 3 =>
              /\ msg = Some(ClearCommand)
              /\ hist.pressed.some
              /\ \/ hist.pressed.v.mode = "Insert" /\ hist.pressed.v.key = "Enter"
                 \/ hist.pressed.v.mode = "CreateTag"
                       /\ hist.pressed.v.key \in AdvanceKeys

\* C15's case: the advance that completed the tag form has been applied, and
\* so has its ChangeMode(Normal); the third action of the chain is pending.
C15_Witness ==
    /\ hist.pressed.some
    /\ hist.pressed.v.mode = "CreateTag"
    /\ hist.pressed.v.key \in AdvanceKeys
    /\ hist.depth = 2
    /\ msg = Some(ClearCommand)
    /\ model.current_mode = "Normal"

\* The keys C16 names as mapped in Normal mode: the digits, the movement
\* keys, create-tag, show-tags, insert and quit.
NormalMapped == Digits \cup MovementKeys \cup {"T", "t", "i", "q"}

\* C16: try_message is total, and inert for unmapped keys: no key press in
\* any mode makes it fail, and in Normal mode a key press that is not a digit,
\* a movement key, create-tag, show-tags, insert or quit yields no action and
\* changes no controller state.
C16_UnmappedKeysInert ==
    [][\A key \in Keys :
          PressKey(key, MaxDelta) =>
              /\ ~panicked'
              /\ (model.current_mode = "Normal" /\ key \notin NormalMapped) =>
                    (msg' = None /\ model' = model)]_vars

\* The key press p = [mode, key] is an escape from one of the modes
\* CreateTag, ShowTags and Insert, or the quit key pressed in Insert mode.
LeavesMode(p) ==
    \/ p.mode \in {"CreateTag", "ShowTags", "Insert"} /\ p.key = "Esc"
    \/ p.mode = "Insert" /\ p.key = "q"

\* The action chain of the last key press has finished.
ChainFinished == hist.pressed.some /\ msg = None

\* C17: from each of the modes CreateTag, ShowTags and Insert, an escape key
\* press leaves the controller in Normal mode once its action chain has
\* finished; in Insert mode the quit key does the same and does not set the
\* should-terminate flag.
C17_EscapeReturnsToNormal ==
    (ChainFinished /\ LeavesMode(hist.pressed.v)) =>
        /\ ~panicked
        /\ model.current_mode = "Normal"
        /\ ~model.should_close

\* C17's case: the chain of the quit key pressed in Insert mode has finished.
C17_Witness ==
    /\ ChainFinished
    /\ hist.pressed.v = [mode |-> "Insert", key |-> "q"]
    /\ model.current_mode = "Normal"
    /\ ~model.should_close

\* The item collection `after` is `before` with `tag` upserted into the tags
\* of the item at index c and nothing else changed, up to the order of the
\* items.
AttachedTo(before, after, c, tag) ==
    /\ Len(after) = Len(before)
    /\ \E perm \in [1 .. Len(before) -> 1 .. Len(before)] :
          /\ \A i, j \in 1 .. Len(before) : perm[i] = perm[j] => i = j
          /\ \A i \in 1 .. Len(before) :
                /\ after[perm[i]].id = before[i].id
                /\ after[perm[i]].name = before[i].name
                /\ i # c + 1 => after[perm[i]].tags = before[i].tags
                /\ i = c + 1 =>
                      after[perm[i]].tags \in Upsert(before[i].tags, tag)

\* C18: the Insert-mode confirm, applied when both cursors are set, upserts a
\* copy of the tag at the tag cursor into the tags of the item at the item
\* cursor's index, re-sorts the item collection, sets the tag cursor to the
\* first position and returns ChangeMode(Normal); the tag catalogue is
\* unchanged.
C18_ConfirmAttaches ==
    [][(ApplyInsertTag /\ model.table_state.some /\ model.list_state.some) =>
          /\ ~panicked'
          /\ msg' = Some(ChangeMode("Normal"))
          /\ model'.list_state = Some(0)
          /\ model'.persistent.tags = model.persistent.tags
          /\ model.list_state.v < Len(model.persistent.tags)
          /\ model.table_state.v < Len(model.persistent.mods)
          /\ AttachedTo(model.persistent.mods, model'.persistent.mods,
                        model.table_state.v,
                        model.persistent.tags[model.list_state.v + 1])
          /\ ModsSorted(model'.persistent.mods)]_vars

\* C5: in every reachable state whose mode is Insert, the tag collection is
\* non-empty and both cursors are set and in range, so the confirm action
\* (InsertTag, translated from Enter in Insert mode only) is never applied
\* with an unset cursor or an index out of range.
C5_InsertReady ==
    (model.current_mode = "Insert" \/ msg = Some(InsertTag)) =>
        /\ model.persistent.tags # <<>>
        /\ InRange(model.list_state, Len(model.persistent.tags))
        /\ InRange(model.table_state, Len(model.persistent.mods))

\* The state in which update has just applied ChangeMode(CreateTag): every
\* ChangeMode returns ClearCommand, and no other message that returns it
\* (MoveDirection) is translated from a key while the mode is CreateTag.
EnteredCreateTag ==
    model.current_mode = "CreateTag" /\ msg = Some(ClearCommand)

\* C6: whenever the controller enters CreateTag, the tag form is fresh: field
\* index 0, empty edit buffer, no accepted Name or Score, also after an
\* earlier CreateTag session was abandoned with escape.
C6_FreshFormOnEntry ==
    EnteredCreateTag =>
        /\ model.input_index = 0
        /\ model.input_buffer = <<>>
        /\ ~model.input_collection.Name.some
        /\ ~model.input_collection.Score.some

\* the Tag the script of the history denotes
ScriptedTag ==
    [name |-> hist.script.name,
     score |-> ParseU64(hist.script.score).v,
     color |-> ColorFromStr(hist.script.color).v]

\* C8: starting in Normal mode, entering CreateTag and then typing a valid
\* Name, Score and Color, each followed by an advance, completes the form:
\* once the chain of the last advance has finished, the controller is in
\* Normal mode and the tag collection holds a tag with exactly the typed
\* name, score and color.
C8_ScriptCompletes ==
    hist.script.stage = 4 =>
        /\ ~panicked
        /\ msg = None =>
              /\ model.current_mode = "Normal"
              /\ \E i \in 1 .. Len(model.persistent.tags) :
                    model.persistent.tags[i] = ScriptedTag

\* The last movement was a toward-end movement of a set item cursor in
\* Normal mode.
MovedTowardEnd ==
    /\ hist.move.some
    /\ hist.move.v.mode = "Normal"
    /\ hist.move.v.direction \in {"Down", "Right"}
    /\ hist.move.v.selected.some

\* the number the digits typed before the last movement denote, 1 without
\* digits (numbers from Saturation on stand for each other: they exceed
\* every collection length)
TypedNumber == IF hist.move.v.delta = <<>> THEN 1 ELSE DigitsValue(hist.move.v.delta, 0)

\* where a toward-end movement by d takes the item cursor
TowardEndBy(d) ==
    Some(Min(hist.move.v.selected.v + d, Len(model.persistent.mods) - 1))

\* C9 as stated: typing the digits of any number d and then a toward-end
\* movement key moves the item cursor from c to min(c + d, n - 1), and the
\* repeat buffer is empty when the action chain has finished.
C9_MovesByTypedNumber ==
    /\ MovedTowardEnd => model.table_state = TowardEndBy(TypedNumber)
    /\ (hist.move.some /\ msg = None) => model.movement_delta = <<>>

\* C9 amended: the same for a number d that fits in a machine word
\* (d <= 2^64 - 1); digits that denote a larger number count as 1.  Without
\* digits the cursor moves by exactly 1, and the repeat buffer is empty when
\* the action chain has finished.
C9_MovesByMachineWord ==
    /\ MovedTowardEnd =>
          model.table_state =
              TowardEndBy(IF FitsU64(hist.move.v.delta) THEN TypedNumber ELSE 1)
    /\ (hist.move.some /\ msg = None) => model.movement_delta = <<>>

\* C9's case: digit 2, then Down, with the cursor at 0 of 3 items, took the
\* cursor to 2 and the chain has finished.
C9_Witness ==
    /\ MovedTowardEnd
    /\ hist.move.v.delta = <<"2">>
    /\ hist.move.v.selected = Some(0)
    /\ Len(model.persistent.mods) = 3
    /\ model.table_state = Some(2)
    /\ msg = None
    /\ model.movement_delta = <<>>

\* Where C19 puts a cursor `selected` over n elements after a movement with
\* repeat count d: max(c - d, 0) toward the start, min(c + d, n - 1) toward
\* the end, unset when it was unset.
Max(a, b) == IF a >= b THEN a ELSE b

MovedBy(selected, direction, d, n) ==
    IF ~selected.some THEN None
    ELSE IF direction \in {"Up", "Left"} THEN Some(Max(selected.v - d, 0))
    ELSE Some(Min(selected.v + d, n - 1))

\* C19: a movement with repeat count d on a set cursor at index c over a
\* collection of length n gives max(c - d, 0) toward the start and
\* min(c + d, n - 1) toward the end, for every machine-word d; a movement on
\* an unset cursor leaves it unset.  In Normal mode this is the item cursor
\* over the items, in Insert mode the tag cursor over the tags, and the other
\* cursor is unchanged.
C19_MovementClamps ==
    [][ApplyMoveDirection =>
          /\ ~panicked'
          /\ model.current_mode = "Normal" =>
                /\ model'.table_state =
                      MovedBy(model.table_state, msg.v.direction,
                              RepeatCount(model.movement_delta),
                              Len(model.persistent.mods))
                /\ model'.list_state = model.list_state
          /\ model.current_mode = "Insert" =>
                /\ model'.list_state =
                      MovedBy(model.list_state, msg.v.direction,
                              RepeatCount(model.movement_delta),
                              Len(model.persistent.tags))
                /\ model'.table_state = model.table_state]_vars

(***************************************************************************)
(* SpecLoaded: the same host loop on a catalogue read from a directory     *)
(* that holds two copies of one package.  read_dir pushes one Mod for      *)
(* every sub-directory and converts the Vec with into(), which sorts and   *)
(* does nothing else; the tag catalogue starts empty.                      *)
(***************************************************************************)
ModACopy == [ModB(<<>>) EXCEPT !.id = ModA(<<>>).id]

LoadedCatalogues ==
    {[mods |-> FromVec(<<ModA(<<>>), ModACopy>>), tags |-> <<>>]}

InitLoaded == InitModel(LoadedCatalogues)

SpecLoaded == InitLoaded /\ [][Next]_vars

NoDupIds(data) ==
    \A i, j \in 1 .. Len(data) : data[i].id = data[j].id => i = j

\* C20: in every reachable controller state, for any initial catalogue
\* passed to the constructor, no two items share an identifier, no two tags
\* of the tag catalogue share a name, and no item has two attached tags with
\* the same name.
C20_IdentifiersUnique ==
    /\ NoDupIds(model.persistent.mods)
    /\ NoDupNames(model.persistent.tags)
    /\ \A i \in 1 .. Len(model.persistent.mods) :
          NoDupNames(model.persistent.mods[i].tags)

(***************************************************************************)
(* The should-terminate flag, ShowTags, the tag form inside the            *)
(* controller.                                                             *)
(***************************************************************************)
QuitPressed == hist.pressed = Some([mode |-> "Normal", key |-> "q"])

\* C21: the should-terminate flag is initially false, becomes true exactly
\* when the quit key is pressed in Normal mode (once the chain of that key
\* press has finished), is never set by a key pressed in CreateTag, ShowTags
\* or Insert mode, and once true is never reset by a later action.
C21_ShouldCloseOnQuit ==
    /\ [](model.should_close <=> (QuitPressed /\ msg = None))
    /\ [][model.should_close => model'.should_close]_vars

\* C21's case: the quit key was pressed in Normal mode after a tag had been
\* created, and its Exit has been applied.
C21_Witness ==
    /\ QuitPressed
    /\ msg = None
    /\ model.should_close
    /\ model.persistent.tags # <<>>

NotANumber(text) == text = <<>> \/ \E i \in 1 .. Len(text) : text[i] \notin Digits

InvalidText(index, text) ==
    IF index = 0 THEN text = <<>>
    ELSE IF index = 1 THEN NotANumber(text)
    ELSE ColorFromStr(text) = None

\* C23: an advance whose validation is Invalid (empty Name, Score text that
\* is not a non-negative integer, Color text that is not a parseable color)
\* leaves the field index, the edit buffer and every previously accepted
\* field value unchanged, and the controller stays in CreateTag mode.  The
\* first conjunct is the controller's advance, the second FormState::next.
C23_InvalidAdvanceKeepsForm ==
    /\ [][(model # None /\ ApplyNextField /\ model.current_mode = "CreateTag"
             /\ InvalidText(model.input_index, model.input_buffer)) =>
             /\ ~panicked'
             /\ msg' = None
             /\ model'.current_mode = "CreateTag"
             /\ model'.input_index = model.input_index
             /\ model'.input_buffer = model.input_buffer
             /\ model'.input_collection = model.input_collection
             /\ model'.persistent = model.persistent]_vars
    /\ [][(form # None /\ FormAdvance
             /\ InvalidText(form.index, Trim(form.curr_buff))) =>
             /\ ~fpanic'
             /\ fhist'.poll = Some(PollInvalid)
             /\ form'.index = form.index
             /\ form'.curr_buff = form.curr_buff
             /\ form'.spec = form.spec]_vars

\* C23's case: an advance key was pressed at the Score field on the text
\* "a"; the chain has finished with the Name still stored, the text still in
\* the buffer and the field still Score.
C23_Witness ==
    /\ hist.pressed.some
    /\ hist.pressed.v.mode = "CreateTag"
    /\ hist.pressed.v.key \in AdvanceKeys
    /\ msg = None
    /\ model.current_mode = "CreateTag"
    /\ model.input_index = 1
    /\ model.input_buffer = <<"a">>
    /\ model.input_collection.Name.some

\* The texts the advance accepts at the Name and at the Score field.
AcceptedText(index, text) ==
    IF index = 0 THEN text # <<>> ELSE ~NotANumber(text) /\ FitsU64(text)

\* C24: an advance whose validation is NextField increases the field index by
\* exactly 1 and sets the edit buffer to read_back(new index) when that is
\* present and to the empty string otherwise: the buffer is empty on arriving
\* at Score and holds the text of the default color on arriving at Color.
\* The first conjunct is FormState::next; the second the controller, whose
\* buffer is loaded by the draw that follows the advance.
C24_NextFieldLoadsBuffer ==
    /\ [][(form # None /\ FormAdvance /\ form.index \in {0, 1}
             /\ AcceptedText(form.index, Trim(form.curr_buff))) =>
             /\ ~fpanic'
             /\ fhist'.poll = Some(PollNextField)
             /\ form'.index = form.index + 1
             /\ form'.index = 1 => form'.curr_buff = <<>>
             /\ form'.index = 2 =>
                   /\ form'.curr_buff # <<>>
                   /\ ColorFromStr(form'.curr_buff) = Some(form.spec.color)
                   /\ \E rgb \in RandomColors :
                         form.spec.color = TagFormDefault(rgb).color]_vars
    /\ [][(model # None /\ ApplyNextField /\ model.current_mode = "CreateTag"
             /\ model.input_index \in {0, 1}
             /\ AcceptedText(model.input_index, model.input_buffer)) =>
             /\ ~panicked'
             /\ msg' = None
             /\ model'.input_index = model.input_index + 1
             /\ model'.input_index = 1 => DrawPopup(model').input_buffer = <<>>
             /\ model'.input_index = 2 =>
                   /\ DrawPopup(model').input_buffer # <<>>
                   /\ ColorFromStr(DrawPopup(model').input_buffer)
                         = Some(model.input_special)]_vars

\* C24's case: the advance at the Score field has just moved the form to the
\* Color field, with the text of the default color in the buffer.
C24_Witness ==
    /\ fhist.at = 1
    /\ fhist.poll = Some(PollNextField)
    /\ form.index = 2
    /\ Len(form.curr_buff) = 7
    /\ form.spec.score = Some(1)

\* The keys of a character edit.
EditKeys == FormChars \cup {"Backspace"}

\* C25: a character-edit event on the form never changes the field index and
\* never completes the form (handle_input returns no output), even when the
\* side-channel validation of the new buffer yields NextField or Done; it
\* changes only the live buffer, the highlight value and the value recorded
\* for the field being edited, never the accepted value of an earlier field.
C25_EditNeverAdvances ==
    [][FormEdit =>
          /\ ~fpanic'
          /\ \A key \in EditKeys : FormStateHandleInput(form, key).output = None
          /\ form'.index = form.index
          /\ fhist' = fhist
          /\ form.index >= 1 => form'.spec.name = form.spec.name
          /\ form.index >= 2 => form'.spec.score = form.spec.score
          /\ form.index = 0 =>
                form'.spec.score = form.spec.score /\ form'.spec.color = form.spec.color
          /\ form.index = 1 => form'.spec.color = form.spec.color]_vars

\* C25's case: at the Color field the preloaded text was deleted and "1"
\* typed, a text that validates as Done: the color is recorded and shown, and
\* the form is still at the Color field, the last advance being the one that
\* accepted the Score.
C25_Witness ==
    /\ form.index = 2
    /\ form.curr_buff = <<"1">>
    /\ form.spec.color = Indexed(1)
    /\ form.selected_color = Indexed(1)
    /\ fhist.at = 1
    /\ fhist.poll = Some(PollNextField)

\* What C26 compares of a form: index, buffer, name and score.
ResetView(fs) ==
    [index |-> fs.index, curr_buff |-> fs.curr_buff,
     name |-> fs.spec.name, score |-> fs.spec.score]

\* C26: from any form state, reset() yields field index 0, an empty edit
\* buffer and a default-constructed spec (empty name, no score); applying
\* reset() twice gives the same index, buffer, name and score as applying it
\* once.
C26_ResetIsFreshAndIdempotent ==
    [][FormReset =>
          /\ ResetView(form') =
                [index |-> 0, curr_buff |-> <<>>, name |-> <<>>, score |-> None]
          /\ \E rgb \in RandomColors : form'.spec = TagFormDefault(rgb)
          /\ \A rgb \in RandomColors :
                ResetView(FormStateReset(form', rgb)) = ResetView(form')]_vars

\* C26's case: a reset called at the Color field, with a Name and a Score
\* accepted, has left a fresh form at field 0.
C26_Witness ==
    /\ fhist = [NoHistory EXCEPT !.reset = Some(2)]
    /\ form.index = 0
    /\ form.curr_buff = <<>>
    /\ form.spec.name = <<>>
    /\ form.spec.score = None
    /\ form.selected_color.kind = "Rgb"

(***************************************************************************)
(* SpecBlank: the host loop when the user creates tags and may type a      *)
(* space into the edit buffer.                                             *)
(***************************************************************************)
BlankKeys == {"T", "1", "Enter", "Backspace", "Esc"}

BlankCatalogues ==
    {[mods |-> <<>>, tags |-> <<>>],
     [mods |-> FromVec(<<ModA(<<>>)>>), tags |-> <<CatalogueTag>>]}

InitBlank == InitModel(BlankCatalogues)

BlankKeyPress == KeyPress(BlankKeys, MaxDelta)

\* one iteration of run_app that reads the press of the space bar in
\* CreateTag mode
TypeBlank ==
    /\ Running
    /\ msg = None
    /\ model.current_mode = "CreateTag"
    /\ CanTypeText(DrawPopup(model).input_buffer)
    /\ \E r \in {TryMessage(DrawPopup(model), " ")} :
          /\ Applied(r)
          /\ hist' = [script |-> NoScript,
                      move |-> None,
                      pressed |-> Some([mode |-> model.current_mode, key |-> " "]),
                      depth |-> 0,
                      change |-> None]
    /\ UNCHANGED <<vecVars, modVars, formVars>>

NextBlank ==
    \/ BlankKeyPress
    \/ TypeBlank
    \/ ApplyClearCommand
    \/ ApplyAppendMovement
    \/ ApplyPropagateEvent
    \/ ApplyNextField
    \/ ApplyChangeMode

SpecBlank == InitBlank /\ [][NextBlank]_vars

Trimmed(name) == name # <<>> /\ Trim(name) = name

\* C27: in the tag-creation flow a Name buffer consisting only of whitespace
\* is rejected on advance, and an accepted Name is stored with leading and
\* trailing whitespace removed, so no tag with an empty or whitespace-only
\* name can enter the tag collection.
C27_NamesAreTrimmed ==
    /\ (model.current_mode = "CreateTag" /\ model.input_collection.Name.some) =>
          Trimmed(model.input_collection.Name.v)
    /\ \A i \in 1 .. Len(model.persistent.tags) :
          Trimmed(model.persistent.tags[i].name)

\* The tag collection holds a tag whose name is one space.
BlankTagCreated ==
    \E i \in 1 .. Len(model.persistent.tags) :
        model.persistent.tags[i].name = <<" ">>

(***************************************************************************)
(* The repeat buffer.                                                      *)
(***************************************************************************)
\* The number a digit text denotes is larger than the largest machine word,
\* 18446744073709551615: it has more digits, or as many and a larger first
\* differing digit.
ExceedsWord(digits) ==
    \/ Len(StripZeros(digits)) > 20
    \/ /\ Len(StripZeros(digits)) = 20
       /\ NameOrder(StripZeros(digits), U64MaxText) = "Greater"

\* The number a digit text denotes, as the sum of its digits' place values;
\* a number of more than eight digits is larger than every collection and is
\* represented by Saturation.
RECURSIVE PlaceValues(_)
PlaceValues(digits) ==
    IF digits = <<>> THEN 0
    ELSE (Byte(Head(digits)) - 48) * 10 ^ (Len(digits) - 1) + PlaceValues(Tail(digits))

Denoted(digits) ==
    IF Len(StripZeros(digits)) > 8 THEN Saturation
    ELSE PlaceValues(StripZeros(digits))

\* The repeat count C28 describes for the text of the repeat buffer.
DescribedCount(text) ==
    IF text = <<>> THEN 1
    ELSE IF \E i \in 1 .. Len(text) : text[i] \notin Digits THEN 1
    ELSE IF ExceedsWord(text) THEN 1
    ELSE Denoted(text)

\* C28: the repeat count used by a movement is the number denoted by the
\* repeat buffer when it parses as a machine-word unsigned integer, and 1 when
\* the buffer is empty or does not parse, including when the typed digits
\* denote a number larger than the largest machine word: the cursor of the
\* mode moves by that count.
C28_RepeatCountOrOne ==
    [][ApplyMoveDirection =>
          /\ RepeatCount(model.movement_delta) = DescribedCount(model.movement_delta)
          /\ model.current_mode = "Normal" =>
                model'.table_state =
                    MovedBy(model.table_state, msg.v.direction,
                            DescribedCount(model.movement_delta),
                            Max(Len(model.persistent.mods), 1))
          /\ model.current_mode = "Insert" =>
                model'.list_state =
                    MovedBy(model.list_state, msg.v.direction,
                            DescribedCount(model.movement_delta),
                            Max(Len(model.persistent.tags), 1))]_vars

\* C28's case: twenty nines, a number above the largest machine word, were
\* typed before a toward-end movement, which moved the item cursor by 1.
C28_Witness ==
    /\ hist.move.some
    /\ hist.move.v.mode = "Normal"
    /\ hist.move.v.direction = "Down"
    /\ Len(hist.move.v.delta) = 20
    /\ hist.move.v.selected = Some(0)
    /\ Len(model.persistent.mods) = 3
    /\ model.table_state = Some(1)

\* C29: after the action chain of any mode change has finished, the repeat
\* buffer is empty: digits typed in Normal or Insert mode before a
\* mode-change key never carry over into the next mode.
C29_ModeChangeClearsRepeat ==
    (hist.change.some /\ msg = None) =>
        /\ ~panicked
        /\ model.movement_delta = <<>>

\* C29's case: the digit 2 was in the repeat buffer when the insert key
\* changed the mode from Normal to Insert; the chain has finished.
C29_Witness ==
    /\ hist.change = Some(<<"2">>)
    /\ hist.pressed = Some([mode |-> "Normal", key |-> "i"])
    /\ msg = None
    /\ model.current_mode = "Insert"
    /\ model.movement_delta = <<>>

\* the tag the form holds once the Color text in the buffer is accepted
FormTag(self) ==
    [name |-> self.input_collection.Name.v,
     score |-> ParseU64(self.input_collection.Score.v).v,
     color |-> ColorFromStr(self.input_buffer).v]

\* a step in which the tag form completes: an advance key was pressed in
\* CreateTag at the Color field, and the tag built from the three texts is
\* upserted into the tag collection
FormCompletes ==
    /\ ApplyNextField
    /\ hist.pressed.some
    /\ hist.pressed.v.mode = "CreateTag"
    /\ hist.pressed.v.key \in AdvanceKeys
    /\ model.current_mode = "CreateTag"
    /\ model.input_index = 2
    /\ ColorFromStr(model.input_buffer).some
    /\ model.input_collection.Name.some
    /\ model.input_collection.Score.some
    /\ ParseU64(model.input_collection.Score.v).some
    /\ model'.persistent.tags \in Upsert(model.persistent.tags, FormTag(model))

\* a step in which the confirm of Insert mode attaches the selected tag to
\* the selected item with upsert_tag_to
ConfirmAttaches ==
    /\ ApplyInsertTag
    /\ hist.pressed = Some([mode |-> "Insert", key |-> "Enter"])
    /\ model.current_mode = "Insert"
    /\ InRange(model.table_state, Len(model.persistent.mods))
    /\ InRange(model.list_state, Len(model.persistent.tags))
    /\ model'.persistent.mods \in
          UpsertTagTo(model.persistent.mods, model.table_state.v,
                      model.persistent.tags[model.list_state.v + 1])

\* C32: the two collections change only through upsert: the tag catalogue
\* changes only in the step that completes the tag form in CreateTag mode,
\* the item collection only in the step of the Insert-mode confirm; every
\* other step (digits, movements, mode changes, escape, character edits,
\* rejected advances, draws) leaves both collections exactly as they were.
C32_CollectionsChangeOnlyByUpsert ==
    [][/\ model'.persistent.tags # model.persistent.tags =>
              FormCompletes /\ model'.persistent.mods = model.persistent.mods
       /\ model'.persistent.mods # model.persistent.mods =>
              ConfirmAttaches /\ model'.persistent.tags = model.persistent.tags
       /\ (\/ UserKeyPress
           \/ Timeout
           \/ ApplyClearCommand
           \/ ApplyAppendMovement
           \/ ApplyMoveDirection
           \/ ApplyPropagateEvent
           \/ ApplyChangeMode
           \/ ApplyExit
           \/ (ApplyNextField /\ msg' = None)) =>
              model'.persistent = model.persistent]_vars

\* C32's case: the form has added a second tag to the catalogue, and the
\* confirm of Insert mode has just attached a tag to an item; the chain has
\* finished.
C32_Witness ==
    /\ hist.pressed = Some([mode |-> "Insert", key |-> "Enter"])
    /\ msg = None
    /\ ~panicked
    /\ Len(model.persistent.tags) = 2
    /\ \E i \in 1 .. Len(model.persistent.mods) :
          model.persistent.mods[i].tags # <<>>

\* C33: in the controller, whenever an advance accepts the Color field (the
\* pending action is NextField in CreateTag at the Color field and the text
\* in the buffer parses as a color), the stored Name and Score are both
\* present, so building the new Tag never hits a missing value; in every
\* reachable state, also after CreateTag was escaped with one or two fields
\* accepted and entered again.
C33_ColorAdvanceHasNameAndScore ==
    (/\ Pending("NextField")
     /\ model.current_mode = "CreateTag"
     /\ model.input_index >= 2
     /\ ColorFromStr(model.input_buffer).some) =>
        /\ model.input_collection.Name.some
        /\ model.input_collection.Score.some

\* C35: whenever the controller is idle (no follow-up action pending) in
\* CreateTag or ShowTags mode the repeat buffer is empty, and a step appends
\* to the repeat buffer only for a digit pressed in Normal or Insert mode.
C35_NoRepeatOutsideNormalInsert ==
    /\ []((msg = None /\ model.current_mode \in {"CreateTag", "ShowTags"}) =>
              model.movement_delta = <<>>)
    /\ [][Len(model'.movement_delta) > Len(model.movement_delta) =>
              /\ ApplyAppendMovement
              /\ model.current_mode \in {"Normal", "Insert"}
              /\ hist.pressed.some
              /\ hist.pressed.v.mode = model.current_mode
              /\ hist.pressed.v.key \in Digits
              /\ model'.movement_delta =
                    Append(model.movement_delta, hist.pressed.v.key)]_vars

\* C35's case: CreateTag was entered and the digit 1 was pressed there; it
\* went to the edit buffer, and the controller is idle.
C35_Witness ==
    /\ model.current_mode = "CreateTag"
    /\ hist.pressed = Some([mode |-> "CreateTag", key |-> "1"])
    /\ msg = None
    /\ ~panicked
    /\ model.input_buffer = <<"1">>
    /\ model.movement_delta = <<>>

\* C36: creating a tag whose name is already in the tag catalogue patches
\* only the catalogue entry: the entry keeps its place and its name and takes
\* the new score and color, the other entries are untouched, and the item
\* collection (the items, their order, the copies of that tag attached to
\* them) is unchanged; an attached copy may so keep a score different from
\* the catalogue's.
C36_RecreatePatchesCatalogueOnly ==
    [][(FormCompletes
        /\ IndexOfName(model.persistent.tags, model.input_collection.Name.v) # 0) =>
           /\ ~panicked'
           /\ model'.persistent.mods = model.persistent.mods
           /\ model'.persistent.tags =
                 [model.persistent.tags EXCEPT
                     ![IndexOfName(model.persistent.tags,
                                   model.input_collection.Name.v)] =
                         [name |-> @.name,
                          score |-> FormTag(model).score,
                          color |-> FormTag(model).color]]]_vars

\* C36's case: the tag "a" was attached to an item with score 5 and then
\* created again with score 1; the catalogue holds score 1, the attached
\* copy still 5.
C36_Witness ==
    /\ hist.pressed.some
    /\ hist.pressed.v.mode = "CreateTag"
    /\ hist.pressed.v.key \in AdvanceKeys
    /\ msg = None
    /\ ~panicked
    /\ model.current_mode = "Normal"
    /\ \E t \in 1 .. Len(model.persistent.tags) :
          /\ model.persistent.tags[t].name = <<"a">>
          /\ model.persistent.tags[t].score = 1
    /\ \E i \in 1 .. Len(model.persistent.mods) :
          \E j \in 1 .. Len(model.persistent.mods[i].tags) :
              /\ model.persistent.mods[i].tags[j].name = <<"a">>
              /\ model.persistent.mods[i].tags[j].score = 5

\* C37: the Insert-mode confirm leaves the item cursor's index unchanged:
\* after the re-sort the cursor is at the same position and has not followed
\* the item that received the tag; it stays within [0, length - 1], as no
\* step changes the number of items.
C37_ConfirmKeepsItemCursor ==
    /\ [](model.table_state.some =>
              InRange(model.table_state, Len(model.persistent.mods)))
    /\ [][Len(model'.persistent.mods) = Len(model.persistent.mods)]_vars
    /\ [][ApplyInsertTag => model'.table_state = model.table_state]_vars

\* C37's case: with the item cursor on the second of two untagged items, the
\* confirm attached a tag to it; the re-sort moved that item to the front and
\* the cursor, still on the second position, is now on the other item.
C37_Witness ==
    /\ hist.pressed = Some([mode |-> "Insert", key |-> "Enter"])
    /\ msg = None
    /\ ~panicked
    /\ model.table_state = Some(1)
    /\ Len(model.persistent.mods) = 2
    /\ model.persistent.mods[1].name = <<"B">>
    /\ model.persistent.mods[1].tags # <<>>
    /\ model.persistent.mods[2].name = <<"A">>
    /\ model.persistent.mods[2].tags = <<>>

====
